---------------------------- MODULE Spec2Model ----------------------------
(***************************************************************************)
(* Meal Recommendation Engine of nutriobot: the catalog loader and its     *)
(* process-wide cache, the medical filter, the ingredient matcher and the  *)
(* fallback chain of generate_ingredient_based_meal_plan                   *)
(* (src/ai_meal_generator.py).                                             *)
(*                                                                         *)
(* Text is modelled as a sequence of one-character strings, so that        *)
(* lower(), strip(), split(), title() and the substring test `a in b` are  *)
(* computed as Python computes them.  A Python dict is a function whose    *)
(* domain is its set of keys; d.get(k, default) is Get(d, k, default).     *)
(***************************************************************************)
EXTENDS Integers, Sequences, FiniteSets

(***************************************************************************)
(* Text                                                                    *)
(***************************************************************************)
UpperAlpha == <<"A","B","C","D","E","F","G","H","I","J","K","L","M",
                "N","O","P","Q","R","S","T","U","V","W","X","Y","Z">>
LowerAlpha == <<"a","b","c","d","e","f","g","h","i","j","k","l","m",
                "n","o","p","q","r","s","t","u","v","w","x","y","z">>
Digits == <<"0","1","2","3","4","5","6","7","8","9">>

Range(f) == {f[i] : i \in DOMAIN f}
IndexOf(c, alphabet) == CHOOSE i \in DOMAIN alphabet : alphabet[i] = c

\* str.lower() / str.upper() on one character
LowerChar(c) == IF c \in Range(UpperAlpha) THEN LowerAlpha[IndexOf(c, UpperAlpha)] ELSE c
UpperChar(c) == IF c \in Range(LowerAlpha) THEN UpperAlpha[IndexOf(c, LowerAlpha)] ELSE c
IsAlpha(c) == c \in Range(UpperAlpha) \/ c \in Range(LowerAlpha)

\* the sequence with the elements of f, each computed once
Listed(f, n) == SubSeq(f, 1, n)

\* str.lower()
Lower(s) == Listed([i \in 1..Len(s) |-> LowerChar(s[i])], Len(s))

\* str.title(): the first letter of every run of letters in upper case, the rest lower
Title(s) == Listed([i \in 1..Len(s) |->
                 IF i = 1 \/ ~IsAlpha(s[i - 1]) THEN UpperChar(s[i]) ELSE LowerChar(s[i])], Len(s))

\* the Python test `a in b` on two strings
IsSub(a, b) == \E i \in 0..(Len(b) - Len(a)) : \A j \in 1..Len(a) : b[i + j] = a[j]

\* str.strip()
RECURSIVE LStrip(_)
LStrip(s) == IF s # <<>> /\ Head(s) = " " THEN LStrip(Tail(s)) ELSE s
RECURSIVE RStrip(_)
RStrip(s) == IF s # <<>> /\ s[Len(s)] = " " THEN RStrip(SubSeq(s, 1, Len(s) - 1)) ELSE s
Strip(s) == RStrip(LStrip(s))

\* str.split(sep) for a one-character separator
RECURSIVE SplitAcc(_, _, _)
SplitAcc(s, sep, cur) ==
  IF s = <<>> THEN <<cur>>
  ELSE IF Head(s) = sep THEN <<cur>> \o SplitAcc(Tail(s), sep, <<>>)
  ELSE SplitAcc(Tail(s), sep, Append(cur, Head(s)))
Split(s, sep) == SplitAcc(s, sep, <<>>)

\* str.replace(c, '') for every c of chars
RemoveChars(s, chars) == SelectSeq(s, LAMBDA c : c \notin chars)

\* int(text): defined on optional blanks around a run of decimal digits
IsIntText(s) == Strip(s) # <<>> /\ \A i \in DOMAIN Strip(s) : Strip(s)[i] \in Range(Digits)
RECURSIVE DigitsValue(_)
DigitsValue(s) ==
  IF s = <<>> THEN 0 ELSE 10 * DigitsValue(SubSeq(s, 1, Len(s) - 1)) + (IndexOf(s[Len(s)], Digits) - 1)
ParseInt(s) == DigitsValue(Strip(s))

\* [f(x) for x in xs], [x for x in xs if p(x)] and any(...)
Map(xs, F(_)) == Listed([i \in 1..Len(xs) |-> F(xs[i])], Len(xs))
AnyOf(xs, P(_)) == \E i \in 1..Len(xs) : P(xs[i])
RECURSIVE SumSeq(_)
SumSeq(ns) == IF ns = <<>> THEN 0 ELSE Head(ns) + SumSeq(Tail(ns))
RECURSIVE Concat(_)
Concat(xss) == IF xss = <<>> THEN <<>> ELSE Head(xss) \o Concat(Tail(xss))

(***************************************************************************)
(* Python dicts and values                                                 *)
(***************************************************************************)
Get(d, k, default) == IF k \in DOMAIN d THEN d[k] ELSE default
Put(d, k, v) == [x \in (DOMAIN d) \cup {k} |-> IF x = k THEN v ELSE d[x]]

\* A value of the user context: a str, None, or a number (Dict[str, Any]).
PyStr(s) == [t |-> "str", v |-> s]
PyNone == [t |-> "NoneType", v |-> <<>>]
PyInt == [t |-> "int", v |-> <<>>]
\* A value stored under 'Ingredients': a list of strings or one string.
PyList(xs) == [t |-> "list", v |-> xs]
\* truth value of such a value (the number modelled is non-zero)
Truthy(x) == CASE x.t = "str" -> x.v # <<>> [] x.t = "NoneType" -> FALSE [] OTHER -> TRUE

\* An optional argument: <<>> is None, <<s>> is the string s.
None == <<>>
Some(s) == <<s>>
\* str(x) inside an f-string
Fmt(opt) == IF opt = None THEN <<"N","o","n","e">> ELSE opt[1]
\* `if x:` on an optional string
OptTruthy(opt) == opt # None /\ opt[1] # <<>>

\* the string literals the code compares with and maps to
Str ==
  [None |-> <<"N","o","n","e">>,
   vegetarian |-> <<"v","e","g","e","t","a","r","i","a","n">>,
   veg |-> <<"v","e","g">>,
   non_veg |-> <<"n","o","n","-","v","e","g">>,
   non_vegetarian |-> <<"n","o","n","-","v","e","g","e","t","a","r","i","a","n">>,
   vegan |-> <<"v","e","g","a","n">>,
   jain |-> <<"j","a","i","n">>,
   eggitarian |-> <<"e","g","g","i","t","a","r","i","a","n">>,
   keto |-> <<"k","e","t","o">>,
   mixed |-> <<"m","i","x","e","d">>,
   Vegetarian |-> <<"V","e","g","e","t","a","r","i","a","n">>,
   Non_Vegetarian |-> <<"N","o","n","-","V","e","g","e","t","a","r","i","a","n">>,
   Vegan |-> <<"V","e","g","a","n">>,
   Jain |-> <<"J","a","i","n">>,
   Eggitarian |-> <<"E","g","g","i","t","a","r","i","a","n">>,
   Keto |-> <<"K","e","t","o">>,
   Mixed |-> <<"M","i","x","e","d">>,
   maharashtra |-> <<"m","a","h","a","r","a","s","h","t","r","a">>,
   karnataka |-> <<"k","a","r","n","a","t","a","k","a">>,
   andhra |-> <<"a","n","d","h","r","a">>,
   Unknown |-> <<"U","n","k","n","o","w","n">>,
   general |-> <<"g","e","n","e","r","a","l">>,
   snack |-> <<"s","n","a","c","k">>,
   morning_snack |-> <<"m","o","r","n","i","n","g"," ","s","n","a","c","k">>,
   evening_snack |-> <<"e","v","e","n","i","n","g"," ","s","n","a","c","k">>,
   breakfast |-> <<"b","r","e","a","k","f","a","s","t">>,
   lunch |-> <<"l","u","n","c","h">>,
   dinner |-> <<"d","i","n","n","e","r">>,
   day_total |-> <<"d","a","y"," ","t","o","t","a","l">>,
   none |-> <<"n","o","n","e">>,
   General |-> <<"G","e","n","e","r","a","l">>]

(***************************************************************************)
(* Configuration and tables (src/ai_meal_generator.py)                     *)
(***************************************************************************)
MAX_MEALS_PER_REQUEST == 50
MAX_CACHE_SIZE == 1000

\* Depth at which the interpreter refuses a further nested call
\* (RecursionError); scaled down from CPython's limit.
RecursionLimit == 2

MEDICAL_CONDITION_MAPPING ==
  <<
    [condition |-> <<"d","i","a","b","e","t","e","s">>,
     keywords |-> <<<<"d","i","a","b","e","t","e","s">>, <<"d","i","a","b","e","t","i","c">>, <<"b","l","o","o","d"," ","s","u","g","a","r">>, <<"g","l","u","c","o","s","e">>>>,
     avoid |-> <<<<"h","i","g","h"," ","s","u","g","a","r">>, <<"r","e","f","i","n","e","d"," ","c","a","r","b","s">>, <<"s","w","e","e","t">>, <<"j","a","g","g","e","r","y">>, <<"h","o","n","e","y">>>>,
     prefer |-> <<<<"l","o","w"," ","g","l","y","c","e","m","i","c">>, <<"f","i","b","e","r"," ","r","i","c","h">>, <<"c","o","m","p","l","e","x"," ","c","a","r","b","s">>, <<"p","r","o","t","e","i","n">>>>,
     max_carbs |-> 45,
     max_calories |-> 400],
    [condition |-> <<"t","h","y","r","o","i","d">>,
     keywords |-> <<<<"t","h","y","r","o","i","d">>, <<"h","y","p","o","t","h","y","r","o","i","d">>, <<"h","y","p","e","r","t","h","y","r","o","i","d">>>>,
     avoid |-> <<<<"g","o","i","t","r","o","g","e","n","i","c"," ","f","o","o","d","s">>, <<"r","a","w"," ","c","a","b","b","a","g","e">>, <<"s","o","y">>>>,
     prefer |-> <<<<"i","o","d","i","n","e"," ","r","i","c","h">>, <<"s","e","l","e","n","i","u","m"," ","r","i","c","h">>, <<"p","r","o","t","e","i","n"," ","r","i","c","h">>>>,
     max_calories |-> 500],
    [condition |-> <<"h","e","a","r","t">>,
     keywords |-> <<<<"h","e","a","r","t">>, <<"c","a","r","d","i","a","c">>, <<"c","a","r","d","i","o","v","a","s","c","u","l","a","r">>, <<"b","p">>, <<"b","l","o","o","d"," ","p","r","e","s","s","u","r","e">>>>,
     avoid |-> <<<<"h","i","g","h"," ","s","o","d","i","u","m">>, <<"f","r","i","e","d">>, <<"t","r","a","n","s"," ","f","a","t">>, <<"s","a","t","u","r","a","t","e","d"," ","f","a","t">>>>,
     prefer |-> <<<<"l","o","w"," ","s","o","d","i","u","m">>, <<"h","e","a","r","t"," ","h","e","a","l","t","h","y">>, <<"o","m","e","g","a"," ","3">>, <<"f","i","b","e","r">>>>,
     max_sodium |-> 500,
     max_fat |-> 15],
    [condition |-> <<"o","b","e","s","i","t","y">>,
     keywords |-> <<<<"o","b","e","s","i","t","y">>, <<"o","v","e","r","w","e","i","g","h","t">>, <<"w","e","i","g","h","t"," ","l","o","s","s">>>>,
     avoid |-> <<<<"h","i","g","h"," ","c","a","l","o","r","i","e">>, <<"f","r","i","e","d">>, <<"s","w","e","e","t">>>>,
     prefer |-> <<<<"l","o","w"," ","c","a","l","o","r","i","e">>, <<"h","i","g","h"," ","p","r","o","t","e","i","n">>, <<"f","i","b","e","r"," ","r","i","c","h">>>>,
     max_calories |-> 300],
    [condition |-> <<"k","i","d","n","e","y">>,
     keywords |-> <<<<"k","i","d","n","e","y">>, <<"r","e","n","a","l">>, <<"c","r","e","a","t","i","n","i","n","e">>>>,
     avoid |-> <<<<"h","i","g","h"," ","p","r","o","t","e","i","n">>, <<"h","i","g","h"," ","p","o","t","a","s","s","i","u","m">>, <<"h","i","g","h"," ","s","o","d","i","u","m">>>>,
     prefer |-> <<<<"l","o","w"," ","p","r","o","t","e","i","n">>, <<"l","o","w"," ","p","o","t","a","s","s","i","u","m">>, <<"l","o","w"," ","s","o","d","i","u","m">>>>,
     max_protein |-> 15,
     max_calories |-> 350],
    [condition |-> <<"l","i","v","e","r">>,
     keywords |-> <<<<"l","i","v","e","r">>, <<"h","e","p","a","t","i","c">>>>,
     avoid |-> <<<<"h","i","g","h"," ","f","a","t">>, <<"f","r","i","e","d">>, <<"a","l","c","o","h","o","l">>>>,
     prefer |-> <<<<"l","o","w"," ","f","a","t">>, <<"p","r","o","t","e","i","n"," ","r","i","c","h">>, <<"a","n","t","i","o","x","i","d","a","n","t">>>>,
     max_fat |-> 10,
     max_calories |-> 400]
  >>

similar_map ==
  <<
    [key |-> <<"r","i","c","e">>,
     variations |-> <<<<"b","a","s","m","a","t","i">>, <<"b","r","o","w","n"," ","r","i","c","e">>, <<"w","h","i","t","e"," ","r","i","c","e">>, <<"s","t","e","a","m","e","d"," ","r","i","c","e">>, <<"r","i","c","e">>>>],
    [key |-> <<"d","a","l">>,
     variations |-> <<<<"l","e","n","t","i","l","s">>, <<"t","o","o","r"," ","d","a","l">>, <<"m","o","o","n","g"," ","d","a","l">>, <<"m","a","s","o","o","r"," ","d","a","l">>, <<"u","r","a","d"," ","d","a","l">>, <<"d","a","l">>>>],
    [key |-> <<"t","o","m","a","t","o">>,
     variations |-> <<<<"t","o","m","a","t","o","e","s">>, <<"t","o","m","a","t","o"," ","p","u","r","e","e">>, <<"t","o","m","a","t","o"," ","p","a","s","t","e">>, <<"t","o","m","a","t","o">>>>],
    [key |-> <<"o","n","i","o","n">>,
     variations |-> <<<<"o","n","i","o","n","s">>, <<"r","e","d"," ","o","n","i","o","n">>, <<"w","h","i","t","e"," ","o","n","i","o","n">>, <<"o","n","i","o","n">>>>],
    [key |-> <<"p","o","t","a","t","o">>,
     variations |-> <<<<"p","o","t","a","t","o","e","s">>, <<"a","l","o","o">>, <<"b","a","b","y"," ","p","o","t","a","t","o","e","s">>, <<"p","o","t","a","t","o">>>>],
    [key |-> <<"e","g","g">>,
     variations |-> <<<<"e","g","g","s">>, <<"b","o","i","l","e","d"," ","e","g","g">>, <<"f","r","i","e","d"," ","e","g","g">>, <<"e","g","g">>>>],
    [key |-> <<"m","i","l","k">>,
     variations |-> <<<<"d","a","i","r","y"," ","m","i","l","k">>, <<"c","o","w"," ","m","i","l","k">>, <<"b","u","f","f","a","l","o"," ","m","i","l","k">>, <<"m","i","l","k">>>>],
    [key |-> <<"f","l","o","u","r">>,
     variations |-> <<<<"w","h","e","a","t"," ","f","l","o","u","r">>, <<"a","t","t","a">>, <<"m","a","i","d","a">>, <<"a","l","l"," ","p","u","r","p","o","s","e"," ","f","l","o","u","r">>, <<"f","l","o","u","r">>>>],
    [key |-> <<"o","i","l">>,
     variations |-> <<<<"c","o","o","k","i","n","g"," ","o","i","l">>, <<"v","e","g","e","t","a","b","l","e"," ","o","i","l">>, <<"g","h","e","e">>, <<"b","u","t","t","e","r">>, <<"o","i","l">>>>],
    [key |-> <<"s","p","i","c","e","s">>,
     variations |-> <<<<"s","a","l","t">>, <<"p","e","p","p","e","r">>, <<"t","u","r","m","e","r","i","c">>, <<"c","u","m","i","n">>, <<"c","o","r","i","a","n","d","e","r">>, <<"g","a","r","a","m"," ","m","a","s","a","l","a">>, <<"s","p","i","c","e","s">>>>],
    [key |-> <<"v","e","g","e","t","a","b","l","e","s">>,
     variations |-> <<<<"c","a","r","r","o","t">>, <<"b","e","a","n","s">>, <<"p","e","a","s">>, <<"c","a","b","b","a","g","e">>, <<"c","a","u","l","i","f","l","o","w","e","r">>, <<"v","e","g","e","t","a","b","l","e","s">>>>],
    [key |-> <<"c","h","i","c","k","e","n">>,
     variations |-> <<<<"c","h","i","c","k","e","n">>, <<"c","h","i","c","k","e","n"," ","b","r","e","a","s","t">>, <<"c","h","i","c","k","e","n"," ","t","h","i","g","h">>, <<"c","h","i","c","k","e","n"," ","m","e","a","t">>>>],
    [key |-> <<"f","i","s","h">>,
     variations |-> <<<<"f","i","s","h">>, <<"s","a","l","m","o","n">>, <<"t","u","n","a">>, <<"m","a","c","k","e","r","e","l">>, <<"f","i","s","h"," ","f","i","l","l","e","t">>>>],
    [key |-> <<"b","r","e","a","d">>,
     variations |-> <<<<"b","r","e","a","d">>, <<"r","o","t","i">>, <<"c","h","a","p","a","t","i">>, <<"n","a","a","n">>, <<"p","a","r","a","t","h","a">>>>],
    [key |-> <<"c","u","r","d">>,
     variations |-> <<<<"c","u","r","d">>, <<"y","o","g","u","r","t">>, <<"d","a","h","i">>, <<"c","u","r","d">>>>],
    [key |-> <<"p","a","n","e","e","r">>,
     variations |-> <<<<"p","a","n","e","e","r">>, <<"c","o","t","t","a","g","e"," ","c","h","e","e","s","e">>, <<"p","a","n","e","e","r">>>>],
    [key |-> <<"c","h","e","e","s","e">>,
     variations |-> <<<<"c","h","e","e","s","e">>, <<"c","h","e","d","d","a","r">>, <<"m","o","z","z","a","r","e","l","l","a">>, <<"c","h","e","e","s","e">>>>],
    [key |-> <<"s","u","g","a","r">>,
     variations |-> <<<<"s","u","g","a","r">>, <<"j","a","g","g","e","r","y">>, <<"h","o","n","e","y">>, <<"s","w","e","e","t","e","n","e","r">>>>],
    [key |-> <<"s","a","l","t">>,
     variations |-> <<<<"s","a","l","t">>, <<"n","a","m","a","k">>, <<"s","a","l","t">>>>],
    [key |-> <<"t","u","r","m","e","r","i","c">>,
     variations |-> <<<<"t","u","r","m","e","r","i","c">>, <<"h","a","l","d","i">>, <<"t","u","r","m","e","r","i","c"," ","p","o","w","d","e","r">>>>],
    [key |-> <<"c","u","m","i","n">>,
     variations |-> <<<<"c","u","m","i","n">>, <<"j","e","e","r","a">>, <<"c","u","m","i","n"," ","s","e","e","d","s">>>>],
    [key |-> <<"c","o","r","i","a","n","d","e","r">>,
     variations |-> <<<<"c","o","r","i","a","n","d","e","r">>, <<"d","h","a","n","i","a">>, <<"c","o","r","i","a","n","d","e","r"," ","l","e","a","v","e","s">>, <<"c","o","r","i","a","n","d","e","r"," ","p","o","w","d","e","r">>>>]
  >>

\* meal_mapping of load_meal_data_from_csv: requested meal type -> accepted 'Meal' cells
meal_mapping ==
  <<[key |-> Str.snack, values |-> <<Str.morning_snack, Str.evening_snack>>],
    [key |-> Str.morning_snack, values |-> <<Str.morning_snack>>],
    [key |-> Str.evening_snack, values |-> <<Str.evening_snack>>],
    [key |-> Str.breakfast, values |-> <<Str.breakfast>>],
    [key |-> Str.lunch, values |-> <<Str.lunch>>],
    [key |-> Str.dinner, values |-> <<Str.dinner>>],
    [key |-> Str.day_total, values |-> <<Str.day_total>>]>>

\* diet_mapping of generate_ingredient_based_meal_plan
diet_mapping ==
  <<[key |-> Str.veg, value |-> Str.Vegetarian],
    [key |-> Str.vegetarian, value |-> Str.Vegetarian],
    [key |-> Str.non_veg, value |-> Str.Non_Vegetarian],
    [key |-> Str.non_vegetarian, value |-> Str.Non_Vegetarian],
    [key |-> Str.vegan, value |-> Str.Vegan],
    [key |-> Str.jain, value |-> Str.Jain],
    [key |-> Str.eggitarian, value |-> Str.Eggitarian],
    [key |-> Str.keto, value |-> Str.Keto],
    [key |-> Str.mixed, value |-> Str.Mixed]>>

\* table lookups: `k in table` and table[k] on a list of [key, ...] entries
HasKey(table, k) == \E i \in DOMAIN table : table[i].key = k
Entry(table, k) == table[CHOOSE i \in DOMAIN table : table[i].key = k]

get_fallback_meal_data ==
  <<[name |-> <<"H","e","a","l","t","h","y"," ","B","r","e","a","k","f","a","s","t"," ","B","o","w","l">>,
     calories |-> 300,
     ingredients |-> <<<<"O","a","t","s">>, <<"B","a","n","a","n","a">>, <<"H","o","n","e","y">>, <<"N","u","t","s">>>>,
     meal_type |-> Str.breakfast],
    [name |-> <<"N","u","t","r","i","t","i","o","u","s"," ","L","u","n","c","h"," ","P","l","a","t","e">>,
     calories |-> 450,
     ingredients |-> <<<<"B","r","o","w","n"," ","R","i","c","e">>, <<"V","e","g","e","t","a","b","l","e","s">>, <<"D","a","l">>, <<"S","a","l","a","d">>>>,
     meal_type |-> Str.lunch],
    [name |-> <<"L","i","g","h","t"," ","D","i","n","n","e","r">>,
     calories |-> 350,
     ingredients |-> <<<<"R","o","t","i">>, <<"S","a","b","z","i">>, <<"C","u","r","d">>, <<"S","a","l","a","d">>>>,
     meal_type |-> Str.dinner],
    [name |-> <<"H","e","a","l","t","h","y"," ","S","n","a","c","k">>,
     calories |-> 150,
     ingredients |-> <<<<"F","r","u","i","t","s">>, <<"N","u","t","s">>, <<"S","e","e","d","s">>>>,
     meal_type |-> Str.snack]>>

(***************************************************************************)
(* The process-wide cache meal_data_cache: a dict in insertion order.      *)
(* Each entry also remembers, as history, the list the loader wrote.       *)
(***************************************************************************)
CacheKeys(cache) == {cache[i].key : i \in DOMAIN cache}
CacheHas(cache, k) == k \in CacheKeys(cache)
CacheIndex(cache, k) == CHOOSE i \in DOMAIN cache : cache[i].key = k
CacheGet(cache, k) == cache[CacheIndex(cache, k)].value
\* cache[k] = v by the loader: an existing key keeps its place
CachePut(cache, k, v) ==
  IF CacheHas(cache, k)
  THEN [cache EXCEPT ![CacheIndex(cache, k)] = [key |-> k, value |-> v, loaded |-> v]]
  ELSE Append(cache, [key |-> k, value |-> v, loaded |-> v])

\* A cleanup that removes the newest entries instead of the oldest.
cleanup_cache_newest_first(cache) ==
  IF Len(cache) > MAX_CACHE_SIZE
  THEN SubSeq(cache, 1, Len(cache) - (Len(cache) - MAX_CACHE_SIZE + 10))
  ELSE cache

cleanup_cache(cache) ==
  IF Len(cache) > MAX_CACHE_SIZE
  THEN SubSeq(cache, (Len(cache) - MAX_CACHE_SIZE + 10) + 1, Len(cache))
  ELSE cache

(***************************************************************************)
(* load_meal_data_from_csv (src/ai_meal_generator.py)                      *)
(***************************************************************************)
RECURSIVE IntText(_)
IntText(n) == IF n < 10 THEN <<Digits[n + 1]>> ELSE IntText(n \div 10) \o <<Digits[(n % 10) + 1]>>

\* f"{state}_{diet_type}_{meal_type}_{max_meals}"
CacheKey(state, diet_type, meal_type, max_meals) ==
  Fmt(state) \o <<"_">> \o Fmt(diet_type) \o <<"_">> \o Fmt(meal_type) \o <<"_">> \o IntText(max_meals)

\* the file a state is read from
CsvPath(state) ==
  IF OptTruthy(state)
  THEN LET state_lower == Lower(state[1]) IN
       CASE state_lower = Str.maharashtra -> "maharastra.csv"
         [] state_lower = Str.karnataka -> "karnataka.csv"
         [] state_lower = Str.andhra -> "andhra.csv"
         [] OTHER -> "maharastra.csv"
  ELSE "maharastra.csv"

\* the meal-type filter of one row
MealPassed(row, meal_type) ==
  LET csv_meal == Lower(Get(row, "Meal", <<>>))
      requested_meal == Lower(meal_type[1])
  IN IF HasKey(meal_mapping, requested_meal)
     THEN \E i \in DOMAIN Entry(meal_mapping, requested_meal).values :
             Entry(meal_mapping, requested_meal).values[i] = csv_meal
     ELSE csv_meal = requested_meal

\* Convert to standard format
RowToMeal(row) ==
  [name |-> Get(row, "Dish Combo", Str.Unknown),
   calories |-> ParseInt(Get(row, "Calories (kcal)", <<"0">>)),
   ingredients |-> IF Get(row, "Ingredients (per serving)", <<>>) # <<>>
                   THEN Split(row["Ingredients (per serving)"], ",") ELSE <<>>,
   meal_type |-> Get(row, "Meal", Str.general),
   diet_type |-> Get(row, "Diet Type", Str.general)]

\* A row of a file is the dict csv.DictReader yields for it.  "\\xff" in a
\* cell is a byte that is not valid UTF-8; latin-1 reads it as U+00FF.
Undecodable(row) == \E k \in DOMAIN row : \E i \in DOMAIN row[k] : row[k][i] = "\\xff"
\* reading the rows as utf-8 raises UnicodeDecodeError at some point
DecodeFails(rows) == \E i \in DOMAIN rows : Undecodable(rows[i])
\* "\\huge" in a cell stands for a field longer than csv.field_size_limit():
\* the reader raises csv.Error when it comes to fetch the row
Unparsable(row) == \E k \in DOMAIN row : \E i \in DOMAIN row[k] : row[k][i] = "\\huge"
\* the row as the latin-1 codec reads it
Latin1(row) ==
  [k \in DOMAIN row |-> Listed([i \in 1..Len(row[k]) |-> IF row[k][i] = "\\xff" THEN "U+00FF" ELSE row[k][i]],
                               Len(row[k]))]

\* open(csv_path, 'r', encoding=...) decodes the file READ_CHUNK bytes at a
\* time, so a pass hands out the rows that end before the chunk with the
\* first undecodable byte and raises when it needs that chunk.  The columns
\* of a line are in the order of CsvHeader; a cell with a comma is quoted.
READ_CHUNK == 8192
CsvHeader == <<"Meal", "Dish Combo", "Calories (kcal)", "Ingredients (per serving)", "Diet Type">>
CellBytes(cell) ==
  Len(cell) + (IF "," \in Range(cell) THEN 2 ELSE 0) + (IF "\\huge" \in Range(cell) THEN 131072 ELSE 0)
\* the bytes of the first n cells of the line of row, separators included
CellsBytes(row, n) == SumSeq(Listed([c \in 1..n |-> CellBytes(row[CsvHeader[c]]) + 1], n))
\* the bytes of the file up to and including the line of rows[i]
RECURSIVE BytesThrough(_, _)
BytesThrough(rows, i) ==
  IF i = 0 THEN SumSeq(Listed([c \in 1..Len(CsvHeader) |-> Len(CsvHeader[c]) + 1], Len(CsvHeader)))
  ELSE CellsBytes(rows[i], Len(CsvHeader)) + BytesThrough(rows, i - 1)
\* the offset in the file of the first byte that is not valid utf-8
UndecodableOffset(rows) ==
  LET i == CHOOSE i \in DOMAIN rows :
             Undecodable(rows[i]) /\ \A j \in 1..(i - 1) : ~Undecodable(rows[j])
      c == CHOOSE c \in DOMAIN CsvHeader :
             /\ "\\xff" \in Range(rows[i][CsvHeader[c]])
             /\ \A b \in 1..(c - 1) : "\\xff" \notin Range(rows[i][CsvHeader[b]])
      cell == rows[i][CsvHeader[c]]
  IN BytesThrough(rows, i - 1) + CellsBytes(rows[i], c - 1)
       + (IF "," \in Range(cell) THEN 1 ELSE 0)
       + (CHOOSE p \in DOMAIN cell : cell[p] = "\\xff" /\ \A q \in 1..(p - 1) : cell[q] # "\\xff") - 1
\* the rows whose lines end in the first chunk_start bytes of the file
RowsWithin(rows, chunk_start) ==
  SubSeq(rows, 1, Cardinality({i \in DOMAIN rows : BytesThrough(rows, i) <= chunk_start}))
\* the rows a utf-8 pass hands out before it raises UnicodeDecodeError
DecodedBefore(rows) == RowsWithin(rows, (UndecodableOffset(rows) \div READ_CHUNK) * READ_CHUNK)

\* what the body of the loop does with a row it has fetched: `continue`
\* ("skip"), int() rejects the calories cell ("raise"), or meals.append
RowFate(row, diet_type, meal_type) ==
  IF Get(row, "Dish Combo", <<>>) = <<>> THEN "skip"
  ELSE IF OptTruthy(diet_type) /\ Lower(Get(row, "Diet Type", <<>>)) # Lower(diet_type[1]) THEN "skip"
  ELSE IF OptTruthy(meal_type) /\ ~MealPassed(row, meal_type) THEN "skip"
  ELSE IF ~IsIntText(Get(row, "Calories (kcal)", <<"0">>)) THEN "raise"
  ELSE "take"

\* the loop over the rows of the file.  It ends when the rows are used up,
\* when the utf-8 read or the csv reader rejects the row to fetch, when
\* max_meals meals have been found, or when int() raises; raised tells
\* whether it ended with an exception
RECURSIVE ScanRows(_, _, _, _, _)
ScanRows(rows, diet_type, meal_type, max_meals, meals) ==
  IF \/ rows = <<>>
     \/ DecodeFails(rows) \/ Unparsable(Head(rows))
     \/ Len(meals) >= max_meals
     \/ RowFate(Head(rows), diet_type, meal_type) = "raise"
  THEN [raised |-> /\ rows # <<>>
                   /\ \/ DecodeFails(rows) \/ Unparsable(Head(rows))
                      \/ Len(meals) < max_meals /\ RowFate(Head(rows), diet_type, meal_type) = "raise",
        meals |-> meals]
  ELSE ScanRows(Tail(rows), diet_type, meal_type, max_meals,
                IF RowFate(Head(rows), diet_type, meal_type) = "take"
                THEN Append(meals, RowToMeal(Head(rows))) ELSE meals)

\* What a load returns: the meals, the cache afterwards, how often the source
\* was opened, and (origin) the cache key whose list object was returned, if any.
LoadResult(meals, cache, reads, origin) ==
  [meals |-> meals, cache |-> cache, reads |-> reads, origin |-> origin]

RECURSIVE load_meal_data_from_csv(_, _, _, _, _, _, _)
\* the rows have been read and the result list written to the cache
Cached(meals, cache, cache_key) ==
  LoadResult(meals, cache, 1, IF CacheHas(cache, cache_key) THEN Some(cache_key) ELSE None)

\* the loop over the rows has ended with scan
Scanned(fs, cache, state, diet_type, cache_key, scan, depth) ==
  IF scan.raised
  THEN LoadResult(get_fallback_meal_data, cache, 1, None)
  ELSE IF scan.meals # <<>>
  THEN Cached(scan.meals, cleanup_cache(CachePut(cache, cache_key, scan.meals)), cache_key)
  ELSE \* no row matched: the diagnostic re-load without the meal filter
       LET all_meals == load_meal_data_from_csv(fs, cache, state, diet_type, None, 10, depth + 1) IN
       LoadResult(get_fallback_meal_data, all_meals.cache, 1 + all_meals.reads, None)

Opened(fs, cache, state, diet_type, meal_type, max_meals, depth, csv_path, cache_key) ==
  IF csv_path \notin DOMAIN fs
  THEN LoadResult(get_fallback_meal_data, cache, 0, None)
  ELSE IF CacheHas(cache, cache_key)
  THEN LoadResult(CacheGet(cache, cache_key), cache, 0, Some(cache_key))
  ELSE Scanned(fs, cache, state, diet_type, cache_key,
               ScanRows(fs[csv_path].rows, diet_type, meal_type, max_meals, <<>>), depth)

load_meal_data_from_csv(fs, cache, state, diet_type, meal_type, max_meals, depth) ==
  IF depth > RecursionLimit
  THEN LoadResult(get_fallback_meal_data, cache, 0, None)      \* RecursionError, caught
  ELSE Opened(fs, cache, state, diet_type, meal_type, max_meals, depth,
              CsvPath(state), CacheKey(state, diet_type, meal_type, max_meals))

\* load_meal_data_from_json: redirects to the CSV loader with the defaults
load_meal_data_from_json(fs, cache, state) ==
  load_meal_data_from_csv(fs, cache, Some(state), None, None, MAX_MEALS_PER_REQUEST, 0)

(***************************************************************************)
(* The CSV loader of src/main.py, with its own meal_data_cache             *)
(***************************************************************************)
ALLOWED_DIET_TYPES ==
  {Str.vegetarian, Str.veg, Str.non_vegetarian, Str.non_veg, Str.vegan, Str.keto, Str.eggitarian, Str.jain, Str.mixed,
   <<"p","a","l","e","o">>, <<"m","e","d","i","t","e","r","r","a","n","e","a","n">>, <<"d","a","s","h">>, <<"l","o","w","-","c","a","r","b">>, <<"h","i","g","h","-","p","r","o","t","e","i","n">>, <<"b","a","l","a","n","c","e","d">>}
ALLOWED_MEAL_TYPES == {Str.breakfast, Str.lunch, Str.dinner, Str.snack, Str.morning_snack, Str.evening_snack}
MAX_FILE_SIZE_MB == 10
MergedCsv == "all_mealplans_merged.csv"

\* a dict literal, from its <<key, value>> pairs
Dict(kvs) ==
  [k \in {kvs[i][1] : i \in DOMAIN kvs} |-> kvs[CHOOSE i \in DOMAIN kvs : kvs[i][1] = k][2]]

main_get_fallback_meal_data ==
  <<Dict(<< <<"Food Item", <<"R","i","c","e"," ","a","n","d"," ","D","a","l">>>>,
            <<"Ingredients", PyList(<<<<"r","i","c","e">>, <<"l","e","n","t","i","l","s">>, <<"s","p","i","c","e","s">>, <<"o","n","i","o","n">>, <<"t","o","m","a","t","o">>>>)>>,
            <<"approx_calories", 250>>,
            <<"Health Impact", <<"B","a","l","a","n","c","e","d"," ","m","e","a","l"," ","w","i","t","h"," ","p","r","o","t","e","i","n"," ","a","n","d"," ","c","a","r","b","s">>>>,
            <<"Calorie Level", <<"m","e","d","i","u","m">>>> >>),
    Dict(<< <<"Food Item", <<"V","e","g","e","t","a","b","l","e"," ","C","u","r","r","y">>>>,
            <<"Ingredients", PyList(<<<<"v","e","g","e","t","a","b","l","e","s">>, <<"s","p","i","c","e","s">>, <<"o","n","i","o","n">>, <<"t","o","m","a","t","o">>, <<"o","i","l">>>>)>>,
            <<"approx_calories", 180>>,
            <<"Health Impact", <<"H","i","g","h"," ","i","n"," ","f","i","b","e","r"," ","a","n","d"," ","v","i","t","a","m","i","n","s">>>>,
            <<"Calorie Level", <<"l","o","w">>>> >>),
    Dict(<< <<"Food Item", <<"C","h","a","p","a","t","i">>>>,
            <<"Ingredients", PyList(<<<<"w","h","e","a","t"," ","f","l","o","u","r">>, <<"w","a","t","e","r">>, <<"s","a","l","t">>>>)>>,
            <<"approx_calories", 120>>,
            <<"Health Impact", <<"W","h","o","l","e"," ","g","r","a","i","n"," ","b","r","e","a","d",","," ","g","o","o","d"," ","s","o","u","r","c","e"," ","o","f"," ","f","i","b","e","r">>>>,
            <<"Calorie Level", <<"l","o","w">>>> >>),
    Dict(<< <<"Food Item", <<"M","i","x","e","d"," ","V","e","g","e","t","a","b","l","e"," ","S","a","l","a","d">>>>,
            <<"Ingredients", PyList(<<<<"c","u","c","u","m","b","e","r">>, <<"t","o","m","a","t","o">>, <<"o","n","i","o","n">>, <<"l","e","m","o","n">>, <<"s","a","l","t">>>>)>>,
            <<"approx_calories", 80>>,
            <<"Health Impact", <<"L","o","w"," ","c","a","l","o","r","i","e",","," ","h","i","g","h"," ","i","n"," ","v","i","t","a","m","i","n","s">>>>,
            <<"Calorie Level", <<"l","o","w">>>> >>)>>

suspicious_patterns ==
  <<<<"<","s","c","r","i","p","t">>, <<"j","a","v","a","s","c","r","i","p","t",":">>, <<"d","a","t","a",":">>, <<"v","b","s","c","r","i","p","t",":">>, <<"o","n","l","o","a","d","=">>,
    <<"<","i","f","r","a","m","e">>, <<"<","o","b","j","e","c","t">>, <<"<","e","m","b","e","d">>, <<"<","f","o","r","m">>, <<"<","i","n","p","u","t">>>>

\* float(text): the numeric cells of the files modelled are whole numbers
\* or no numbers at all
IsFloatText(s) == IsIntText(s)
ParseFloat(s) == ParseInt(s)

validate_csv_row(row) ==
  /\ \A field \in {"Diet Type", "Meal", "Dish Combo", "Ingredients (per serving)", "Calories (kcal)"} :
        field \in DOMAIN row /\ row[field] # <<>> /\ Strip(row[field]) # <<>>
  /\ \A field \in DOMAIN row :
        \A p \in DOMAIN suspicious_patterns : ~IsSub(suspicious_patterns[p], Lower(row[field]))
  /\ IsFloatText(Get(row, "Calories (kcal)", <<"0">>))
  /\ ParseFloat(Get(row, "Calories (kcal)", <<"0">>)) <= 2000
  /\ \A field \in DOMAIN row : Len(row[field]) <= 1000

CalorieLevel(calories) ==
  IF calories < 200 THEN <<"l","o","w">> ELSE IF calories < 500 THEN <<"m","e","d","i","u","m">> ELSE <<"h","i","g","h">>

\* convert_csv_row_to_meal: <<the meal>>, or None when a float() raised
convert_csv_row_to_meal(row) ==
  IF \/ ~IsFloatText(Get(row, "Calories (kcal)", <<"2","0","0">>))
     \/ ~IsFloatText(Get(row, "Carbs (g)", <<"0">>))
     \/ ~IsFloatText(Get(row, "Protein (g)", <<"0">>))
     \/ ~IsFloatText(Get(row, "Fat (g)", <<"0">>))
  THEN None
  ELSE Some(Dict(<<
         <<"Food Item", Strip(Get(row, "Dish Combo", <<>>))>>,
         <<"Ingredients",
           PyList(SelectSeq(Map(Split(Get(row, "Ingredients (per serving)", <<>>), ","), Strip),
                            LAMBDA ing : ing # <<>>))>>,
         <<"approx_calories", ParseFloat(Get(row, "Calories (kcal)", <<"2","0","0">>))>>,
         <<"Health Impact", Get(row, "Healthy Tag", <<"G","o","o","d"," ","f","o","r"," ","h","e","a","l","t","h">>)>>,
         <<"Calorie Level", CalorieLevel(ParseFloat(Get(row, "Calories (kcal)", <<"2","0","0">>)))>>,
         <<"Category", Get(row, "Meal", Str.General)>>,
         <<"Region", <<"I","n","d","i","a">>>>,
         <<"SpecialNote", <<"D","i","e","t",":"," ">> \o Get(row, "Diet Type", Str.General)>>,
         <<"Carbs", ParseFloat(Get(row, "Carbs (g)", <<"0">>))>>,
         <<"Protein", ParseFloat(Get(row, "Protein (g)", <<"0">>))>>,
         <<"Fat", ParseFloat(Get(row, "Fat (g)", <<"0">>))>> >>))

\* meals.append(meal) `if meal`
AppendMeal(meals, meal) == IF meal = None THEN meals ELSE Append(meals, meal[1])

\* the utf-8 pass over the rows.  csv.Error leaves the function through the
\* outer handler, which drops the meals collected: the pass then yields none
RECURSIVE MainScan(_, _, _, _, _, _, _)
MainScan(rows, row_num, diet_type, meal_type, max_meals, meals, invalid_rows) ==
  IF rows = <<>> THEN meals
  ELSE IF Unparsable(Head(rows)) THEN <<>>
  ELSE IF Len(meals) >= max_meals \/ row_num > 10000 THEN meals
  ELSE IF ~validate_csv_row(Head(rows))
  THEN IF invalid_rows + 1 > 100 THEN meals
       ELSE MainScan(Tail(rows), row_num + 1, diet_type, meal_type, max_meals, meals, invalid_rows + 1)
  ELSE IF OptTruthy(diet_type) /\ Lower(Get(Head(rows), "Diet Type", <<>>)) # Lower(diet_type[1])
  THEN MainScan(Tail(rows), row_num + 1, diet_type, meal_type, max_meals, meals, invalid_rows)
  ELSE IF OptTruthy(meal_type) /\ Lower(Get(Head(rows), "Meal", <<>>)) # Lower(meal_type[1])
  THEN MainScan(Tail(rows), row_num + 1, diet_type, meal_type, max_meals, meals, invalid_rows)
  ELSE MainScan(Tail(rows), row_num + 1, diet_type, meal_type, max_meals,
                AppendMeal(meals, convert_csv_row_to_meal(Head(rows))), invalid_rows)

\* the latin-1 pass: from the first row again, without the filters, onto
\* the meals the utf-8 pass had collected.  An exception ends the pass and
\* is swallowed by the inner handler: the meals collected so far stay
RECURSIVE LatinScan(_, _, _)
LatinScan(rows, max_meals, meals) ==
  IF rows = <<>> THEN meals
  ELSE IF Unparsable(Head(rows)) \/ Len(meals) >= max_meals THEN meals
  ELSE LatinScan(Tail(rows), max_meals,
                 IF validate_csv_row(Latin1(Head(rows)))
                 THEN AppendMeal(meals, convert_csv_row_to_meal(Latin1(Head(rows))))
                 ELSE meals)

\* f"{diet_type}_{meal_type}_{max_meals}"
MainCacheKey(diet_type, meal_type, max_meals) ==
  Fmt(diet_type) \o <<"_">> \o Fmt(meal_type) \o <<"_">> \o IntText(max_meals)

\* "Cache the results" and return
MainWritten(meals, cache, cache_key, reads) ==
  LoadResult(meals, cache, reads, IF CacheHas(cache, cache_key) THEN Some(cache_key) ELSE None)
MainStored(meals, cache, cache_key, reads) ==
  IF Len(meals) > 0
  THEN MainWritten(meals, cleanup_cache(CachePut(cache, cache_key, meals)), cache_key, reads)
  ELSE LoadResult(main_get_fallback_meal_data, cache, reads, None)

\* the utf-8 pass raised UnicodeDecodeError after the rows in before: the
\* file is read once more as latin-1
MainRetried(rows, before, cache, diet_type, meal_type, max_meals, cache_key) ==
  IF \E i \in DOMAIN before : Unparsable(before[i])
  THEN MainStored(<<>>, cache, cache_key, 1)
  ELSE MainStored(LatinScan(rows, max_meals,
                            MainScan(before, 1, diet_type, meal_type, max_meals, <<>>, 0)),
                  cache, cache_key, 2)

\* the file is read as utf-8.  The pass raises UnicodeDecodeError when it
\* fetches the row after those in before, unless max_meals meals had been
\* found by then and the loop was left
MainDecoded(rows, before, cache, diet_type, meal_type, max_meals, cache_key) ==
  IF before # <<>>
     /\ Len(MainScan(SubSeq(before, 1, Len(before) - 1), 1, diet_type, meal_type, max_meals, <<>>, 0)) >= max_meals
  THEN MainStored(MainScan(before, 1, diet_type, meal_type, max_meals, <<>>, 0), cache, cache_key, 1)
  ELSE MainRetried(rows, before, cache, diet_type, meal_type, max_meals, cache_key)

MainRead(rows, cache, diet_type, meal_type, max_meals, cache_key) ==
  IF DecodeFails(rows)
  THEN MainDecoded(rows, DecodedBefore(rows), cache, diet_type, meal_type, max_meals, cache_key)
  ELSE MainStored(MainScan(rows, 1, diet_type, meal_type, max_meals, <<>>, 0), cache, cache_key, 1)

\* A loader that never looks into the cache before it reads.
MainValidatedNoLookup(fs, cache, diet_type, meal_type, max_meals, cache_key) ==
  MainRead(fs[MergedCsv].rows, cache, diet_type, meal_type, max_meals, cache_key)

\* the parameters have been validated
MainValidated(fs, cache, diet_type, meal_type, max_meals, cache_key) ==
  IF CacheHas(cache, cache_key)
  THEN LoadResult(CacheGet(cache, cache_key), cache, 0, Some(cache_key))
  ELSE MainRead(fs[MergedCsv].rows, cache, diet_type, meal_type, max_meals, cache_key)

MainKeyed(fs, cache, diet_type, meal_type, max_meals) ==
  MainValidated(fs, cache, diet_type, meal_type, max_meals,
                MainCacheKey(diet_type, meal_type, max_meals))

main_load_meal_data_from_csv(fs, cache, diet_type, meal_type, max_meals) ==
  IF MergedCsv \notin DOMAIN fs
  THEN LoadResult(main_get_fallback_meal_data, cache, 0, None)
  ELSE IF fs[MergedCsv].size_mb > MAX_FILE_SIZE_MB
  THEN LoadResult(main_get_fallback_meal_data, cache, 0, None)
  ELSE MainKeyed(fs, cache,
                 IF OptTruthy(diet_type) /\ Lower(diet_type[1]) \notin ALLOWED_DIET_TYPES
                 THEN None ELSE diet_type,
                 IF OptTruthy(meal_type) /\ Lower(meal_type[1]) \notin ALLOWED_MEAL_TYPES
                 THEN None ELSE meal_type,
                 IF max_meals > MAX_MEALS_PER_REQUEST THEN MAX_MEALS_PER_REQUEST ELSE max_meals)

(***************************************************************************)
(* Meal objects.  A meal dict handed out by the loader is the very object  *)
(* held in the cached list, so an assignment to one of its keys shows in   *)
(* the cache.  ref is <<>> for a fresh object (the fallback corpus) or     *)
(* <<key, i>> for element i of the list cached under key.                  *)
(***************************************************************************)
Obj(d, ref) == [d |-> d, ref |-> ref]
Objects(res) ==
  Listed([i \in 1..Len(res.meals) |->
            Obj(res.meals[i], IF res.origin = None THEN <<>> ELSE <<res.origin[1], i>>)], Len(res.meals))

\* the cache after `meal[k] = v` on the objects objs
WriteBack(cache, objs) ==
  Listed([c \in 1..Len(cache) |->
     [cache[c] EXCEPT !.value =
        Listed([i \in 1..Len(cache[c].value) |->
           IF \E o \in DOMAIN objs : objs[o].ref = <<cache[c].key, i>>
           THEN objs[CHOOSE o \in DOMAIN objs : objs[o].ref = <<cache[c].key, i>>].d
           ELSE cache[c].value[i]], Len(cache[c].value))]], Len(cache))

\* iterating a value stored under 'Ingredients': the elements of a list,
\* the characters of a string
Items(x) == IF x.t = "str" THEN Listed([i \in 1..Len(x.v) |-> <<x.v[i]>>], Len(x.v)) ELSE x.v

Count(xs, P(_)) == Cardinality({i \in 1..Len(xs) : P(xs[i])})
StripLower(s) == Lower(Strip(s))

\* list.sort(key=..., reverse=True) on [k, x] pairs: stable, highest k first
RECURSIVE InsertDesc(_, _)
InsertDesc(sorted, p) ==
  IF sorted = <<>> THEN <<p>>
  ELSE IF Head(sorted).k >= p.k THEN <<Head(sorted)>> \o InsertDesc(Tail(sorted), p)
  ELSE <<p>> \o sorted
RECURSIVE SortDesc(_)
SortDesc(ps) ==
  IF ps = <<>> THEN <<>> ELSE InsertDesc(SortDesc(SubSeq(ps, 1, Len(ps) - 1)), ps[Len(ps)])

(***************************************************************************)
(* filter_meals_by_medical_condition                                       *)
(***************************************************************************)
\* the first table entry one of whose keywords occurs in the condition, if any
\* A search that falls back on the first entry of the table.
FirstConfigOrDefault(hits) ==
  IF hits = {} THEN <<MEDICAL_CONDITION_MAPPING[1]>>
  ELSE <<MEDICAL_CONDITION_MAPPING[CHOOSE i \in hits : \A j \in hits : i <= j]>>
FirstConfig(hits) ==
  IF hits = {} THEN <<>>
  ELSE <<MEDICAL_CONDITION_MAPPING[CHOOSE i \in hits : \A j \in hits : i <= j]>>
ConditionConfig(medical_condition) ==
  FirstConfig({i \in DOMAIN MEDICAL_CONDITION_MAPPING :
                 AnyOf(MEDICAL_CONDITION_MAPPING[i].keywords, LAMBDA kw : IsSub(kw, medical_condition))})

FilterName(d) == Lower(Get(d, "Food Item", Get(d, "name", <<>>)))
FilterIngredients(d) ==
  LET ingredients == Get(d, "Ingredients", PyList(<<>>)) IN
  IF ingredients.t = "str" THEN Map(Split(ingredients.v, ","), StripLower) ELSE ingredients.v

ShouldAvoid(config, d) ==
  \E a \in DOMAIN Get(config, "avoid", <<>>) :
     \/ IsSub(config.avoid[a], FilterName(d))
     \/ AnyOf(FilterIngredients(d), LAMBDA ingredient : IsSub(config.avoid[a], ingredient))

PreferScore(config, d) ==
  SumSeq(Map(Get(config, "prefer", <<>>), LAMBDA prefer_item :
     (IF IsSub(prefer_item, FilterName(d)) THEN 5 ELSE 0)
     + 3 * Count(FilterIngredients(d), LAMBDA ingredient : IsSub(prefer_item, ingredient))))

FilterCalories(d) == Get(d, "approx_calories", Get(d, "Calories (kcal)", 200))

OverLimit(config, d) ==
  \/ "max_calories" \in DOMAIN config /\ FilterCalories(d) > config.max_calories
  \/ "max_carbs" \in DOMAIN config /\ Get(d, "Carbs (g)", 0) > config.max_carbs
  \/ "max_protein" \in DOMAIN config /\ Get(d, "Protein (g)", 0) > config.max_protein
  \/ "max_fat" \in DOMAIN config /\ Get(d, "Fat (g)", 0) > config.max_fat

\* meal['medical_score'] = score on a meal that is kept
Scored(m, score) == [k |-> score, x |-> Obj(Put(m.d, "medical_score", score), m.ref)]

\* the loop over the meals under the table entry found, and the final sort
FilterWith(meals, config) ==
  IF config = <<>> THEN meals
  ELSE Map(SortDesc(Map(SelectSeq(meals, LAMBDA m :
                                    ~ShouldAvoid(config[1], m.d) /\ ~OverLimit(config[1], m.d)),
                        LAMBDA m : Scored(m, PreferScore(config[1], m.d)))),
           LAMBDA p : p.x)

\* meals: objects; medical_condition: a string.  The survivors carry the
\* medical_score just assigned to them.
filter_meals_by_medical_condition(meals, medical_condition) ==
  IF medical_condition = <<>> \/ Lower(medical_condition) = Str.none THEN meals
  ELSE FilterWith(meals, ConditionConfig(Lower(medical_condition)))

(***************************************************************************)
(* The ingredient matcher of generate_ingredient_based_meal_plan           *)
(***************************************************************************)
meal_type_map ==
  <<[key |-> Str.breakfast, value |-> <<Str.breakfast, <<"m","o","r","n","i","n","g">>, <<"b","r","e","a","k","f","a","s","t"," ","m","e","a","l">>>>],
    [key |-> Str.lunch, value |-> <<Str.lunch, <<"a","f","t","e","r","n","o","o","n">>, <<"l","u","n","c","h"," ","m","e","a","l">>>>],
    [key |-> Str.dinner, value |-> <<Str.dinner, <<"e","v","e","n","i","n","g">>, <<"d","i","n","n","e","r"," ","m","e","a","l">>, <<"n","i","g","h","t">>>>],
    [key |-> Str.snack, value |-> <<Str.snack, Str.evening_snack, Str.morning_snack, <<"l","i","g","h","t"," ","m","e","a","l">>>>]>>

get_meal_type_variations(meal_type) ==
  IF HasKey(meal_type_map, Lower(meal_type)) THEN Entry(meal_type_map, Lower(meal_type)).value
  ELSE <<Lower(meal_type)>>

\* the first entry of the table whose key contains, or is contained in, the ingredient
SimilarEntry(ingredient, ingredient_lower, hits) ==
  IF hits = {} THEN <<ingredient>>
  ELSE similar_map[CHOOSE i \in hits : \A j \in hits : i <= j].variations
SimilarTo(ingredient, ingredient_lower) ==
  SimilarEntry(ingredient, ingredient_lower,
               {i \in DOMAIN similar_map :
                  IsSub(ingredient_lower, similar_map[i].key) \/ IsSub(similar_map[i].key, ingredient_lower)})
get_similar_ingredients(ingredient) == SimilarTo(ingredient, Lower(Strip(ingredient)))

\* ingredient_list: the requested ingredients, stripped, lower-cased, blanks dropped
IngredientList(ingredients) ==
  SelectSeq(Map(Split(ingredients, ","), StripLower), LAMBDA ing : ing # <<>>)

\* meal_ingredients as the matcher extracts them
MealIngredients(d) ==
  IF "Ingredients" \in DOMAIN d THEN Map(Items(d["Ingredients"]), StripLower)
  ELSE IF "ingredients" \in DOMAIN d THEN Map(d["ingredients"], StripLower)
  ELSE <<>>

MatchName(d) == Lower(Get(d, "Food Item", Get(d, "name", <<>>)))

\* A scoring that gives an equal ingredient the points of a partial match.
PointsWithoutExactMatch(user_ingredient, d, similar_ingredients, meal_name) ==
     (IF IsSub(user_ingredient, meal_name) THEN 8 ELSE 0)
     + SumSeq(Map(MealIngredients(d), LAMBDA meal_ingredient :
          IF IsSub(user_ingredient, meal_ingredient) \/ IsSub(meal_ingredient, user_ingredient) THEN 5
          ELSE IF AnyOf(similar_ingredients, LAMBDA similar : IsSub(similar, meal_ingredient)) THEN 3
          ELSE 0))
     + (IF AnyOf(similar_ingredients, LAMBDA sim_ing : IsSub(sim_ing, meal_name)) THEN 2 ELSE 0)

\* A scoring that has points for the meal name and for an equal ingredient only.
PointsForExactOnly(user_ingredient, d, similar_ingredients, meal_name) ==
     (IF IsSub(user_ingredient, meal_name) THEN 8 ELSE 0)
     + SumSeq(Map(MealIngredients(d), LAMBDA meal_ingredient :
          IF user_ingredient = meal_ingredient THEN 10 ELSE 0))

\* the points one requested ingredient earns on one meal
PointsWith(user_ingredient, d, similar_ingredients, meal_name) ==
     (IF IsSub(user_ingredient, meal_name) THEN 8 ELSE 0)
     + SumSeq(Map(MealIngredients(d), LAMBDA meal_ingredient :
          IF user_ingredient = meal_ingredient THEN 10
          ELSE IF IsSub(user_ingredient, meal_ingredient) \/ IsSub(meal_ingredient, user_ingredient) THEN 5
          ELSE IF AnyOf(similar_ingredients, LAMBDA similar : IsSub(similar, meal_ingredient)) THEN 3
          ELSE 0))
     + (IF AnyOf(similar_ingredients, LAMBDA sim_ing : IsSub(sim_ing, meal_name)) THEN 2 ELSE 0)
IngredientPoints(user_ingredient, d) ==
  PointsWith(user_ingredient, d, get_similar_ingredients(user_ingredient), MatchName(d))

CategoryBonus(d, meal_type) ==
  LET meal_category == Lower(Get(d, "Category", <<>>)) IN
  IF IsSub(Lower(meal_type), meal_category) THEN 15
  ELSE IF AnyOf(get_meal_type_variations(meal_type), LAMBDA w : IsSub(w, meal_category)) THEN 10
  ELSE 0

RegionBonus(d, state) == IF IsSub(Lower(state), Lower(Get(d, "Region", <<>>))) THEN 3 ELSE 0

MedicalBonus(d) == Get(d, "medical_score", 0) * 2

MatchScore(d, ingredient_list, meal_type, state) ==
  SumSeq(Map(ingredient_list, LAMBDA user_ingredient : IngredientPoints(user_ingredient, d)))
  + CategoryBonus(d, meal_type) + RegionBonus(d, state) + MedicalBonus(d)

MatchedIngredients(d, ingredient_list) ==
  SelectSeq(ingredient_list, LAMBDA ing : AnyOf(MealIngredients(d), LAMBDA meal_ing : IsSub(ing, meal_ing)))

\* matching_meals, sorted by score (highest first)
MatchingMeals(all_meals, ingredient_list, meal_type, state) ==
  Map(SortDesc(SelectSeq(Map(all_meals, LAMBDA m :
                               [k |-> MatchScore(m.d, ingredient_list, meal_type, state), x |-> m.d]),
                         LAMBDA p : p.k > 0)),
      LAMBDA p : [meal |-> p.x, score |-> p.k,
                  matched_ingredients |-> MatchedIngredients(p.x, ingredient_list)])

\* partial_matches of the else branch
PartialCriterion(d, ingredient) ==
  LET meal_ingredients == Map(Items(Get(d, "Ingredients", PyList(Get(d, "ingredients", <<>>)))), StripLower) IN
  \/ IsSub(ingredient, MatchName(d))
  \/ AnyOf(meal_ingredients, LAMBDA ing : IsSub(ingredient, ing))
  \/ AnyOf(meal_ingredients, LAMBDA ing : IsSub(ing, ingredient))

PartialMatches(all_meals, ingredient_list) ==
  LET hits == SelectSeq(all_meals, LAMBDA m : AnyOf(ingredient_list, LAMBDA ing : PartialCriterion(m.d, ing))) IN
  Map(hits, LAMBDA m :
    [meal |-> m.d, score |-> 5,
     matched_ingredients |->
       <<ingredient_list[CHOOSE i \in DOMAIN ingredient_list :
            /\ PartialCriterion(m.d, ingredient_list[i])
            /\ \A j \in 1..(i - 1) : ~PartialCriterion(m.d, ingredient_list[j])]>>])

\* Remove duplicates based on the normalized meal name, keeping the first
NormalizedName(d) ==
  RemoveChars(Lower(Strip(Get(d, "Food Item", Get(d, "name", Str.Unknown)))), {" ", "-", "+"})
\* A deduplication that keeps the last meal of each normalized name.
UniqueMatchesKeepingLast(matches) ==
  SelectSeq([i \in 1..Len(matches) |-> [i |-> i, m |-> matches[i]]],
            LAMBDA e : \A j \in (e.i + 1)..Len(matches) : NormalizedName(matches[j].meal) # NormalizedName(e.m.meal))
UniqueMatches(matches) ==
  SelectSeq([i \in 1..Len(matches) |-> [i |-> i, m |-> matches[i]]],
            LAMBDA e : \A j \in 1..(e.i - 1) : NormalizedName(matches[j].meal) # NormalizedName(e.m.meal))
\* The first three matches, duplicates of a name included.
Top3WithDuplicates(matches) ==
  SubSeq(Map(matches, LAMBDA m : m), 1, IF Len(matches) < 3 THEN Len(matches) ELSE 3)
Top3(matches) ==
  LET unique == Map(UniqueMatches(matches), LAMBDA e : e.m) IN
  SubSeq(unique, 1, IF Len(unique) < 3 THEN Len(unique) ELSE 3)

(***************************************************************************)
(* Response texts.  A response is the record of the values its template    *)
(* interpolates; TextHead is the first line of the text.                   *)
(***************************************************************************)
Min(a, b) == IF a < b THEN a ELSE b

\* generate_fallback_ingredient_response
\* suggestions.extend(similar[:3]) when the ingredient has similar ones
Top3Similar(similar) == IF Len(similar) > 1 THEN SubSeq(similar, 1, Min(3, Len(similar))) ELSE <<>>
\* list(set(suggestions))[:8]: at most 8 of the distinct suggestions
UniqueSuggestions(suggestions) ==
  IF Cardinality(suggestions) <= 8 THEN suggestions
  ELSE CHOOSE s \in SUBSET suggestions : Cardinality(s) = 8

generate_fallback_ingredient_response(ingredients, diet_type, state, meal_type) ==
  [kind |-> "static",
   heading |-> Title(meal_type),
   ingredients |-> ingredients,
   meal_type |-> meal_type,
   diet_type |-> diet_type,
   state |-> Title(state),
   suggestions |->
     UniqueSuggestions(Range(Concat(Map(Map(Split(ingredients, ","), StripLower),
                                        LAMBDA ingredient : Top3Similar(get_similar_ingredients(ingredient))))))]

\* one numbered entry of a match response
MatchItem(match) ==
  [name |-> Get(match.meal, "Food Item", Get(match.meal, "name", Str.Unknown)),
   category |-> Get(match.meal, "Category", Str.General),
   calories |-> Get(match.meal, "approx_calories", Get(match.meal, "calories", 200)),
   score |-> match.score,
   uses |-> match.matched_ingredients,
   ingredients |-> LET all == Items(Get(match.meal, "Ingredients", PyList(Get(match.meal, "ingredients", <<>>))))
                   IN SubSeq(all, 1, Min(5, Len(all)))]

\* the "Perfect ... Matches" / "Partial ... Matches" text
MatchResponse(kind, matches, ingredients, meal_type, diet_type, state) ==
  [kind |-> kind,
   heading |-> Title(meal_type),
   ingredients |-> ingredients,
   diet_type |-> Title(diet_type),
   state |-> Title(state),
   items |-> Map(Top3(matches), MatchItem),
   found |-> Len(matches)]

\* the completion text returned verbatim
GeneratedResponse(text) == [kind |-> "generated", text |-> text]
NoResponse == [kind |-> "none"]

TextHead(response) ==
  CASE response.kind = "static" ->
         <<"N","o"," ","P","e","r","f","e","c","t"," ">> \o response.heading
           \o <<" ","M","a","t","c","h","e","s"," ","F","o","u","n","d">>
    [] response.kind = "full" ->
         <<"P","e","r","f","e","c","t"," ">> \o response.heading \o <<" ","M","a","t","c","h","e","s"," ","f","o","r"," ","Y","o","u","r"," ","I","n","g","r","e","d","i","e","n","t","s">>
    [] response.kind = "partial" ->
         <<"P","a","r","t","i","a","l"," ">> \o response.heading \o <<" ","M","a","t","c","h","e","s"," ","f","o","r"," ","Y","o","u","r"," ","I","n","g","r","e","d","i","e","n","t","s">>
    [] response.kind = "generated" -> response.text
    [] OTHER -> <<>>

(***************************************************************************)
(* generate_ingredient_based_meal_plan, up to its first suspension point.  *)
(* Each step of the function is an operator that takes what the steps      *)
(* before it have computed.                                                *)
(***************************************************************************)
\* the loads "from other states for variety", threading the cache
RECURSIVE LoadOthers(_, _, _)
LoadOthers(fs, cache, other_states) ==
  IF other_states = <<>> THEN [objs |-> <<>>, cache |-> cache]
  ELSE LET other_meals == load_meal_data_from_json(fs, cache, Head(other_states))
           rest == LoadOthers(fs, other_meals.cache, Tail(other_states))
       IN [objs |-> (IF other_meals.meals # <<>> THEN Objects(other_meals) ELSE <<>>) \o rest.objs,
           cache |-> rest.cache]

\* What one run of the synchronous part leaves behind.
\*   status:    "returned" (a text), "raised" (an exception reached the caller)
\*              or "awaiting" (suspended in the generation call)
\*   trace:     the stages entered, in order, each with how it ended
\*   listed:    the meal dicts of the numbered entries of the response
\*   survivors: the meals handed to the scoring pass (after medical filtering,
\*              when it applies), config: the table entry applied
\*   bonuses:   the medical bonus of every scored meal
Stage(name, end) == [stage |-> name, end |-> end]
Outcome(status, response, cache, trace, listed, survivors, config, bonuses, diet_type, state) ==
  [status |-> status, response |-> response, cache |-> cache, trace |-> trace,
   listed |-> listed, survivors |-> survivors, config |-> config, bonuses |-> bonuses,
   diet_type |-> diet_type, state |-> state]

\* A chain that goes from an empty FullMatch straight to the static text.
RespondSkippingPartial(ai_available, ingredients, meal_type, diet_type, state, cache, survivors, config, bonuses, matching_meals, partial_matches) ==
  IF matching_meals # <<>>
  THEN Outcome("returned",
               MatchResponse("full", matching_meals, ingredients, meal_type, diet_type, state),
               cache, <<Stage("FullMatch", "result")>>,
               Map(Top3(matching_meals), LAMBDA m : m.meal), survivors, config, bonuses, diet_type, state)
  ELSE Outcome("returned", generate_fallback_ingredient_response(ingredients, diet_type, state, meal_type),
               cache, <<Stage("FullMatch", "empty"), Stage("StaticFallback", "result")>>,
               <<>>, survivors, config, bonuses, diet_type, state)

\* STEP 3 and after: the first stage with a result answers
Respond(ai_available, ingredients, meal_type, diet_type, state, cache, survivors, config, bonuses, matching_meals, partial_matches) ==
  IF matching_meals # <<>>
  THEN Outcome("returned",
               MatchResponse("full", matching_meals, ingredients, meal_type, diet_type, state),
               cache, <<Stage("FullMatch", "result")>>,
               Map(Top3(matching_meals), LAMBDA m : m.meal), survivors, config, bonuses, diet_type, state)
  ELSE IF partial_matches # <<>>
  THEN Outcome("returned",
               MatchResponse("partial", partial_matches, ingredients, meal_type, diet_type, state),
               cache, <<Stage("FullMatch", "empty"), Stage("PartialMatch", "result")>>,
               Map(Top3(partial_matches), LAMBDA m : m.meal), survivors, config, bonuses, diet_type, state)
  ELSE IF ~ai_available
  THEN Outcome("returned", generate_fallback_ingredient_response(ingredients, diet_type, state, meal_type),
               cache,
               <<Stage("FullMatch", "empty"), Stage("PartialMatch", "empty"),
                 Stage("GeneratedText", "unavailable"), Stage("StaticFallback", "result")>>,
               <<>>, survivors, config, bonuses, diet_type, state)
  ELSE Outcome("awaiting", NoResponse, cache,
               <<Stage("FullMatch", "empty"), Stage("PartialMatch", "empty")>>,
               <<>>, survivors, config, bonuses, diet_type, state)

\* STEP 2: the scoring pass over all_meals, then the partial pass
MatchIngredients(ai_available, ingredients, meal_type, diet_type, state, cache, all_meals, config) ==
  Respond(ai_available, ingredients, meal_type, diet_type, state, cache,
          Map(all_meals, LAMBDA m : m.d),
          config,
          Map(all_meals, LAMBDA m : MedicalBonus(m.d)),
          MatchingMeals(all_meals, IngredientList(ingredients), meal_type, state),
          PartialMatches(all_meals, IngredientList(ingredients)))

\* the medical filtering has run with the table entry config (<<>>: none found)
Filtered(ai_available, ingredients, meal_type, diet_type, state, cache, all_meals, config) ==
  MatchIngredients(ai_available, ingredients, meal_type, diet_type, state,
                   IF config # <<>> THEN WriteBack(cache, all_meals) ELSE cache,
                   all_meals, config)

\* "Apply medical filtering" on the meals loaded
ApplyMedicalFiltering(ai_available, ingredients, meal_type, diet_type, state, loaded, medical_condition) ==
  IF Truthy(medical_condition) /\ medical_condition.t # "str"
  THEN \* medical_condition.lower() raises; the handler answers
       Outcome("returned", generate_fallback_ingredient_response(ingredients, diet_type, state, meal_type),
               loaded.cache, <<Stage("FullMatch", "raised"), Stage("StaticFallback", "result")>>, <<>>, <<>>, <<>>, <<>>, diet_type, state)
  ELSE IF Truthy(medical_condition) /\ Lower(medical_condition.v) # Str.none
  THEN Filtered(ai_available, ingredients, meal_type, diet_type, state, loaded.cache,
                filter_meals_by_medical_condition(loaded.objs, medical_condition.v),
                ConditionConfig(Lower(medical_condition.v)))
  ELSE MatchIngredients(ai_available, ingredients, meal_type, diet_type, state, loaded.cache,
                        loaded.objs, <<>>)

\* STEP 1: all_meals, from the state's file with the diet filter, from the
\* state's file again and from the other states
LoadedOthers(csv_meals, json_meals, others) ==
  [objs |-> Objects(csv_meals)
              \o (IF json_meals.meals # <<>> THEN Objects(json_meals) ELSE <<>>)
              \o others.objs,
   cache |-> others.cache]
LoadedJson(fs, state, csv_meals, json_meals) ==
  LoadedOthers(csv_meals, json_meals,
               LoadOthers(fs, json_meals.cache,
                          IF state \in {Str.karnataka, Str.andhra} THEN <<>> ELSE <<Str.karnataka, Str.andhra>>))
LoadedCsv(fs, state, csv_meals) ==
  LoadedJson(fs, state, csv_meals, load_meal_data_from_json(fs, csv_meals.cache, state))
LoadAllMeals(fs, cache, state, csv_diet_type) ==
  LoadedCsv(fs, state, load_meal_data_from_csv(fs, cache, Some(state), Some(csv_diet_type), None, 100, 0))

\* the user preferences are strings: diet_type and state are derived
Derived(fs, cache, ai_available, user_data, ingredients, meal_type, diet_type, state) ==
  ApplyMedicalFiltering(ai_available, ingredients, meal_type, diet_type, state,
                        LoadAllMeals(fs, cache, state,
                                     IF HasKey(diet_mapping, diet_type)
                                     THEN Entry(diet_mapping, diet_type).value ELSE Str.Vegetarian),
                        Get(user_data, "medical", PyStr(Str.None)))

generate_sync(fs, cache, ai_available, user_data, ingredients, meal_type) ==
  LET diet_value == Get(user_data, "diet_type", Get(user_data, "diet", PyStr(Str.vegetarian)))
      state_value == Get(user_data, "state", PyStr(Str.maharashtra))
  IN
  IF diet_value.t # "str" \/ state_value.t # "str"
  THEN \* .lower() raises; the handler then reads diet_type or state, still unbound
       Outcome("raised", NoResponse, cache, <<>>, <<>>, <<>>, <<>>, <<>>, <<>>, <<>>)
  ELSE Derived(fs, cache, ai_available, user_data, ingredients, meal_type,
               Lower(diet_value.v), Lower(state_value.v))

(***************************************************************************)
(* The process: the catalog files, the cache shared by all requests, the   *)
(* requests suspended in the generation call and the call that has just    *)
(* ended.                                                                  *)
(***************************************************************************)
VARIABLES
  fs,               \* the catalog files on disk: file name -> rows (a missing file has no entry)
  ai_available,     \* AI_AVAILABLE, fixed when the module is imported
  meal_data_cache,  \* the module-level cache, in insertion order
  pending,          \* the requests suspended in the generation call
  done,             \* <<>> or <<the call that has just ended>>, until its caller has handled it
  main_meal_data_cache,  \* meal_data_cache of src/main.py
  loads,            \* the direct calls of the loaders and of check_rate_limit so far, oldest first
  user_rate_limits, \* user_rate_limits of src/main.py: user id -> its requests and last reset
  clock             \* what datetime.now() returns, in seconds

vars == <<fs, ai_available, meal_data_cache, pending, done, main_meal_data_cache, loads, user_rate_limits, clock>>

\* requests that may be suspended in the generation call at the same time
MaxInFlight == 1

Row(diet, meal, dish, ingredients, calories) ==
  [x \in {"Diet Type", "Meal", "Dish Combo", "Ingredients (per serving)", "Calories (kcal)"} |->
     CASE x = "Diet Type" -> diet
       [] x = "Meal" -> meal
       [] x = "Dish Combo" -> dish
       [] x = "Ingredients (per serving)" -> ingredients
       [] OTHER -> calories]

\* a file: its rows and its size in MB, rounded up
File(rows, size_mb) == [rows |-> rows, size_mb |-> size_mb]

\* The catalog: maharastra.csv and karnataka.csv exist, andhra.csv does not.
Files ==
  [f \in {"maharastra.csv", "karnataka.csv"} |->
     IF f = "maharastra.csv"
     THEN File(<<Row(Str.Vegetarian, <<"L","u","n","c","h">>,
                     <<"P","r","o","t","e","i","n"," ","D","a","l">>,
                     <<"M","o","o","n","g"," ","D","a","l",","," ","G","h","e","e">>, <<"4","5","0">>),
                 Row(Str.Non_Vegetarian, <<"D","i","n","n","e","r">>,
                     <<"C","h","i","c","k","e","n"," ","R","i","c","e">>,
                     <<"C","h","i","c","k","e","n",","," ","R","i","c","e",","," ","H","o","n","e","y">>,
                     <<"3","0","0">>)>>, 1)
     ELSE File(<<Row(Str.Vegetarian, <<"B","r","e","a","k","f","a","s","t">>,
                     <<"R","a","g","i"," ","M","u","d","d","e">>,
                     <<"R","a","g","i">>, <<"2","5","0">>)>>, 1)]

\* user contexts: each key of the profile is missing, a string, None or a number
MkUser(diet, state, medical) ==
  [k \in (IF diet = <<>> THEN {} ELSE {"diet"}) \cup (IF state = <<>> THEN {} ELSE {"state"})
         \cup (IF medical = <<>> THEN {} ELSE {"medical"}) |->
     CASE k = "diet" -> diet[1] [] k = "state" -> state[1] [] OTHER -> medical[1]]

DietValues == {<<>>, <<PyNone>>}
StateValues == {<<>>, <<PyStr(<<"K","a","r","n","a","t","a","k","a">>)>>}
MedicalValues == {<<>>, <<PyStr(<<"D","i","a","b","e","t","e","s">>)>>, <<PyInt>>}
UserContexts == {MkUser(d, s, m) : d \in DietValues, s \in StateValues, m \in MedicalValues}
IngredientTexts == {<<>>, <<"k","i","w","i">>, <<"R","i","c","e",","," ","d","a","l">>}
MealTypes == {<<"m","e","a","l">>, Str.lunch}

\* what the generation service may answer
Replies == {"ok", "empty", "status", "error"}
CompletionText == <<"K","i","w","i"," ","b","o","w","l">>

Init ==
  /\ fs = Files
  /\ ai_available \in BOOLEAN
  /\ meal_data_cache = <<>>
  /\ pending = {}
  /\ done = <<>>
  /\ main_meal_data_cache = <<>>
  /\ loads = <<>>
  /\ user_rate_limits = <<>>
  /\ clock = 0

\* The record of a call that has ended.  What the scoring pass saw (listed,
\* survivors, config, bonuses) is recorded for the calls that end without
\* suspension.
Call(user_data, ingredients, meal_type, status, response, trace, listed, survivors, config, bonuses, reply, gen_calls) ==
  [user_data |-> user_data, ingredients |-> ingredients, meal_type |-> meal_type,
   status |-> status, response |-> response, trace |-> trace, listed |-> listed,
   survivors |-> survivors, config |-> config, bonuses |-> bonuses,
   reply |-> reply, gen_calls |-> gen_calls]

\* the synchronous part has run with outcome out
Ran(user_data, ingredients, meal_type, out) ==
  /\ out.status = "awaiting" =>
        /\ Cardinality(pending) < MaxInFlight
        /\ \A p \in pending : <<p.user_data, p.ingredients, p.meal_type>> # <<user_data, ingredients, meal_type>>
  /\ meal_data_cache' = out.cache
  /\ IF out.status = "awaiting"
     THEN /\ pending' = pending \cup
                {[user_data |-> user_data, ingredients |-> ingredients, meal_type |-> meal_type,
                  diet_type |-> out.diet_type, state |-> out.state, trace |-> out.trace]}
          /\ done' = done
     ELSE /\ pending' = pending
          /\ done' = <<Call(user_data, ingredients, meal_type, out.status, out.response, out.trace,
                            out.listed, out.survivors, out.config, out.bonuses, "none", 0)>>

\* A request arrives and runs to its end, or to the generation call.
Submit(user_data, ingredients, meal_type) ==
  /\ done = <<>>
  /\ Ran(user_data, ingredients, meal_type,
         generate_sync(fs, meal_data_cache, ai_available, user_data, ingredients, meal_type))
  /\ UNCHANGED <<fs, ai_available, main_meal_data_cache, loads, user_rate_limits, clock>>

\* A failure text built with the default meal type instead of the requested one.
FailureTextDefaultMeal(p) ==
  generate_fallback_ingredient_response(p.ingredients, p.diet_type, p.state, <<"m","e","a","l">>)

\* the text returned when the generation call does not succeed
FailureText(p) == generate_fallback_ingredient_response(p.ingredients, p.diet_type, p.state, p.meal_type)

\* The generation call of a suspended request ends: session.post answers
\* with status 200 and a text ("ok", "empty"), with another status, or raises
\* (which is also how a timeout or a malformed body ends).
GenerationReply(p, reply) ==
  /\ done = <<>>
  /\ p \in pending
  /\ done' = <<Call(p.user_data, p.ingredients, p.meal_type, "returned",
                    CASE reply = "ok" -> GeneratedResponse(CompletionText)
                      [] reply = "empty" -> GeneratedResponse(<<>>)
                      [] OTHER -> FailureText(p),
                    CASE reply \in {"ok", "empty"} -> Append(p.trace, Stage("GeneratedText", "result"))
                      [] reply = "status" ->
                           p.trace \o <<Stage("GeneratedText", "failed"), Stage("StaticFallback", "result")>>
                      [] OTHER ->
                           p.trace \o <<Stage("GeneratedText", "raised"), Stage("StaticFallback", "result")>>,
                    <<>>, <<>>, <<>>, <<>>, reply, 1)>>
  /\ pending' = pending \ {p}
  /\ UNCHANGED <<fs, ai_available, meal_data_cache, main_meal_data_cache, loads, user_rate_limits, clock>>

\* The caller has the outcome of the call and answers the user.
Deliver ==
  /\ done # <<>>
  /\ done' = <<>>
  /\ UNCHANGED <<fs, ai_available, meal_data_cache, pending, main_meal_data_cache, loads, user_rate_limits, clock>>

Next ==
  \/ \E user_data \in UserContexts, ingredients \in IngredientTexts, meal_type \in MealTypes :
        Submit(user_data, ingredients, meal_type)
  \/ \E p \in pending, reply \in Replies : GenerationReply(p, reply)
  \/ Deliver

Spec == Init /\ [][Next]_vars

(***************************************************************************)
(* The loaders called directly, one call after the other, against a        *)
(* source that does not change.                                            *)
(***************************************************************************)
\* the row with a byte that is not valid utf-8 at the end of its dish name
Undecoded(row) == [row EXCEPT !["Dish Combo"] = Append(@, "\\xff")]

MergedRows ==
  <<Row(Str.Vegetarian, <<"L","u","n","c","h">>, <<"P","r","o","t","e","i","n"," ","D","a","l">>, <<"M","o","o","n","g"," ","D","a","l",","," ","G","h","e","e">>, <<"4","5","0">>),
    Row(Str.Non_Vegetarian, <<"D","i","n","n","e","r">>, <<"C","h","i","c","k","e","n"," ","R","i","c","e">>, <<"C","h","i","c","k","e","n",","," ","R","i","c","e",","," ","H","o","n","e","y">>, <<"3","0","0">>),
    Row(Str.Vegetarian, <<"D","i","n","n","e","r">>, <<"P","l","a","i","n"," ","R","i","c","e">>, <<"R","i","c","e">>, <<"a","b","c">>),
    Row(Str.Vegetarian, <<"L","u","n","c","h">>, <<"W","a","t","e","r">>, <<"W","a","t","e","r">>, <<"0">>)>>

\* the row with an ingredients field beyond the csv field limit
TooLong(row) == [row EXCEPT !["Ingredients (per serving)"] = <<"\\huge">>]

\* one row more than MAX_MEALS_PER_REQUEST
ManyRows ==
  Listed([i \in 1..(MAX_MEALS_PER_REQUEST + 1) |->
            Row(Str.Vegetarian, <<"L","u","n","c","h">>, <<"D","i","s","h"," ">> \o IntText(i), <<"R","i","c","e">>, <<"1","0","0">>)],
         MAX_MEALS_PER_REQUEST + 1)

\* a file longer than one READ_CHUNK: a sound row, eight long rows without
\* a category, which validate_csv_row rejects, and a last row that is not
\* valid utf-8
LongRows ==
  <<MergedRows[1]>>
    \o Listed([i \in 1..8 |->
                 Row(Str.Vegetarian, <<>>, <<"F","i","l","l","e","r"," ">> \o IntText(i),
                     Listed([c \in 1..1100 |-> "x"], 1100), <<"1","0","0">>)], 8)
    \o <<Undecoded(MergedRows[2])>>

WithFile(files, name, file) ==
  [f \in DOMAIN files \cup {name} |-> IF f = name THEN file ELSE files[f]]

\* the merged catalog is sound; holds a row that is not valid utf-8 (as does
\* karnataka.csv) and further down a row the csv reader rejects; is larger
\* than the limit; is missing; is valid utf-8 with a row the csv reader
\* rejects (and andhra.csv exists, with many rows); holds long lines and its
\* undecodable byte beyond the first READ_CHUNK
LoadFileSystems ==
  {WithFile(Files, MergedCsv, File(MergedRows, 1)),
   WithFile(WithFile(Files, MergedCsv,
                     File(<<MergedRows[1], Undecoded(MergedRows[2]), TooLong(MergedRows[1]), MergedRows[2]>>, 1)),
            "karnataka.csv", File(<<Undecoded(Files["karnataka.csv"].rows[1])>>, 1)),
   WithFile(Files, MergedCsv, File(MergedRows, MAX_FILE_SIZE_MB + 1)),
   Files,
   WithFile(WithFile(Files, MergedCsv, File(<<MergedRows[1], TooLong(MergedRows[1]), MergedRows[2]>>, 1)),
            "andhra.csv", File(ManyRows, 1)),
   WithFile(Files, MergedCsv, File(LongRows, 1))}

Query(state, diet_type, meal_type, max_meals) ==
  [state |-> state, diet_type |-> diet_type, meal_type |-> meal_type, max_meals |-> max_meals]

GeneratorQueries ==
  {Query(Some(<<"m","a","h","a","r","a","s","h","t","r","a">>), None, None, 50),
   Query(Some(<<"m","a","h","a","r","a","s","h","t","r","a">>), Some(Str.Vegetarian), Some(Str.dinner), 50),
   Query(Some(<<"m","a","h","a","r","a","s","h","t","r","a">>), Some(<<"M","a","r","t","i","a","n">>), None, 50),
   Query(Some(<<"k","a","r","n","a","t","a","k","a">>), None, None, 50),
   Query(Some(<<"a","n","d","h","r","a">>), None, None, 100)}

MainQueries ==
  {Query(None, None, None, 50),
   Query(None, Some(Str.vegetarian), Some(Str.lunch), 50),
   Query(None, Some(Str.vegan), None, 50),
   Query(None, Some(<<"M","a","r","t","i","a","n">>), None, 60)}

LoadInit ==
  /\ fs \in LoadFileSystems
  /\ ai_available = FALSE
  /\ meal_data_cache = <<>>
  /\ pending = {}
  /\ done = <<>>
  /\ main_meal_data_cache = <<>>
  /\ loads = <<>>
  /\ user_rate_limits = <<>>
  /\ clock = 0

\* direct calls of the loaders followed in one run
MaxLoads == 3

\* the call of loader with query q has returned res
Loaded(loader, q, res) ==
  Append(loads,
         [loader |-> loader, query |-> q, meals |-> res.meals, reads |-> res.reads,
          stored |-> res.origin # None])

GeneratorReturned(q, res) ==
  /\ meal_data_cache' = res.cache
  /\ loads' = Loaded("ai_meal_generator", q, res)

GeneratorLoad(q) ==
  /\ Len(loads) < MaxLoads
  /\ GeneratorReturned(q, load_meal_data_from_csv(fs, meal_data_cache, q.state, q.diet_type,
                                                  q.meal_type, q.max_meals, 0))
  /\ UNCHANGED <<fs, ai_available, pending, done, main_meal_data_cache, user_rate_limits, clock>>

MainReturned(q, res) ==
  /\ main_meal_data_cache' = res.cache
  /\ loads' = Loaded("main", q, res)

MainLoad(q) ==
  /\ Len(loads) < MaxLoads
  /\ MainReturned(q, main_load_meal_data_from_csv(fs, main_meal_data_cache, q.diet_type,
                                                  q.meal_type, q.max_meals))
  /\ UNCHANGED <<fs, ai_available, pending, done, meal_data_cache, user_rate_limits, clock>>

LoadNext ==
  \/ \E q \in GeneratorQueries : GeneratorLoad(q)
  \/ \E q \in MainQueries : MainLoad(q)

LoadSpec == LoadInit /\ [][LoadNext]_vars

(***************************************************************************)
(* Requests against a catalog with meals of the same normalized name, of   *)
(* equal score and with ingredients that match a request exactly or in     *)
(* part; the generation capability is not configured.                      *)
(***************************************************************************)
MatchRows ==
  <<Row(Str.Vegetarian, <<"L","u","n","c","h">>, <<"F","i","b","e","r","-","R","i","c","h"," ","D","a","l">>, <<"R","i","c","e">>, <<"1","0","0">>),
    Row(Str.Vegetarian, <<"L","u","n","c","h">>, <<"F","i","b","e","r"," ","R","i","c","h"," ","D","a","l">>, <<"R","a","g","i">>, <<"1","0","0">>),
    Row(Str.Vegetarian, <<"D","i","n","n","e","r">>, <<"B","o","w","l">>, <<"R","i","c","e">>, <<"1","0","0">>),
    Row(Str.Vegetarian, <<"D","i","n","n","e","r">>, <<"B","o","w","l">>, <<"B","r","o","w","n"," ","R","i","c","e">>, <<"1","0","0">>),
    Row(Str.Vegetarian, <<"L","u","n","c","h">>, <<"P","l","a","i","n"," ","R","i","c","e">>, <<"R","i","c","e">>, <<"1","0","0">>),
    Row(Str.Vegetarian, <<"L","u","n","c","h">>, <<"D","a","l"," ","T","a","d","k","a">>, <<"T","o","o","r"," ","D","a","l",","," ","R","i","c","e">>, <<"1","0","0">>)>>

MatchFileSystems ==
  {WithFile(Files, "maharastra.csv", File(MatchRows, 1)),
   WithFile(Files, "maharastra.csv", File(SubSeq(MatchRows, 1, 4), 1))}

MatchInit ==
  /\ fs \in MatchFileSystems
  /\ ai_available = FALSE
  /\ meal_data_cache = <<>>
  /\ pending = {}
  /\ done = <<>>
  /\ main_meal_data_cache = <<>>
  /\ loads = <<>>
  /\ user_rate_limits = <<>>
  /\ clock = 0

MatchNext ==
  \/ \E diet \in {<<>>, <<PyStr(Str.vegan)>>},
        medical \in {<<>>, <<PyStr(<<"D","i","a","b","e","t","e","s">>)>>, <<PyStr(<<"F","l","u">>)>>},
        ingredients \in {<<"r","i","c","e">>, <<"r","i","c","e",","," ","b","r","o","w","n">>, <<"b","r","o","w","n">>, <<"r","a","g","i">>, <<"k","i","w","i">>},
        meal_type \in MealTypes :
        Submit(MkUser(diet, <<>>, medical), ingredients, meal_type)
  \/ Deliver

MatchSpec == MatchInit /\ [][MatchNext]_vars

(***************************************************************************)
(* filter_meals_by_preferences (src/main.py) and                           *)
(* filter_meals_by_medical_condition, called directly on a list of meals.  *)
(***************************************************************************)
\* str(list): the items in quotes, separated by ", "
RECURSIVE PyRepr(_)
PyRepr(xs) ==
  IF xs = <<>> THEN <<>>
  ELSE <<"'">> \o Head(xs) \o <<"'">> \o (IF Tail(xs) = <<>> THEN <<>> ELSE <<",", " ">>) \o PyRepr(Tail(xs))

\* A text of the ingredients that keeps the case of the letters.
IngredientsTextAsWritten(meal) ==
  LET ingredients == Get(meal, "Ingredients", PyList(<<>>)) IN
  IF ingredients.t = "str" THEN ingredients.v ELSE <<"[">> \o PyRepr(ingredients.v) \o <<"]">>

\* str(meal.get("Ingredients", [])).lower()
IngredientsText(meal) ==
  LET ingredients == Get(meal, "Ingredients", PyList(<<>>)) IN
  Lower(IF ingredients.t = "str" THEN ingredients.v ELSE <<"[">> \o PyRepr(ingredients.v) \o <<"]">>)

\* any(item in str(meal.get("Ingredients", [])).lower() for item in items)
Mentions(meal, items) == \E i \in DOMAIN items : IsSub(items[i], IngredientsText(meal))

\* "Check diet compatibility": the meal is skipped, appended at once, or
\* goes on to the check of the medical condition
DietFate(meal, diet_type_lower) ==
  CASE diet_type_lower = Str.jain ->
         IF Mentions(meal, <<<<"o","n","i","o","n">>, <<"g","a","r","l","i","c">>, <<"p","o","t","a","t","o">>, <<"e","g","g">>, <<"c","h","i","c","k","e","n">>, <<"f","i","s","h">>, <<"m","e","a","t">>, <<"p","r","a","w","n">>>>)
         THEN "skip"
         ELSE IF Lower(Get(meal, "SpecialNote", <<>>)) = <<"n","o"," ","o","n","i","o","n",","," ","g","a","r","l","i","c">> THEN "skip" ELSE "check"
    [] diet_type_lower = Str.vegan ->
         IF Mentions(meal, <<<<"m","i","l","k">>, <<"g","h","e","e">>, <<"c","u","r","d">>, <<"e","g","g">>, <<"m","e","a","t">>, <<"f","i","s","h">>, <<"c","h","i","c","k","e","n">>>>)
         THEN "skip"
         ELSE IF Lower(Get(meal, "SpecialNote", <<>>)) = Str.vegan THEN "skip" ELSE "check"
    [] diet_type_lower = Str.non_vegetarian ->
         IF Mentions(meal, <<<<"c","h","i","c","k","e","n">>, <<"f","i","s","h">>, <<"m","e","a","t">>, <<"p","r","a","w","n">>, <<"e","g","g">>>>) THEN "append" ELSE "check"
    [] diet_type_lower = Str.vegetarian ->
         IF Mentions(meal, <<<<"c","h","i","c","k","e","n">>, <<"f","i","s","h">>, <<"m","e","a","t">>, <<"p","r","a","w","n">>, <<"e","g","g">>>>) THEN "skip" ELSE "check"
    [] diet_type_lower = Str.eggitarian ->
         IF Mentions(meal, <<<<"c","h","i","c","k","e","n">>, <<"f","i","s","h">>, <<"m","e","a","t">>, <<"p","r","a","w","n">>>>) THEN "skip"
         ELSE IF IsSub(<<"e","g","g">>, IngredientsText(meal)) THEN "append" ELSE "check"
    [] diet_type_lower = Str.keto ->
         IF Get(meal, "Carbs", 0) > 20 THEN "skip"
         ELSE IF Get(meal, "Fat", 0) > 10 THEN "append" ELSE "check"
    [] OTHER -> "check"

\* "Check medical condition compatibility"
MedicalFate(meal, medical_condition) ==
  CASE Lower(medical_condition) = <<"d","i","a","b","e","t","e","s">> ->
         IF Lower(Get(meal, "Calorie Level", <<>>)) \in {<<"h","i","g","h">>, <<"v","e","r","y"," ","h","i","g","h">>} THEN "skip"
         ELSE IF Get(meal, "approx_calories", 0) > 300 THEN "skip" ELSE "append"
    [] Lower(medical_condition) = <<"t","h","y","r","o","i","d">> ->
         IF IsSub(<<"c","o","c","o","n","u","t">>, IngredientsText(meal)) THEN "skip" ELSE "append"
    [] OTHER -> "append"

\* the loop over the meals, under the normalized diet type
PreferenceLoop(meals, diet_type_lower, medical_condition) ==
  SelectSeq(meals, LAMBDA meal :
    /\ "Food Item" \in DOMAIN meal
    /\ \/ DietFate(meal, diet_type_lower) = "append"
       \/ DietFate(meal, diet_type_lower) = "check" /\ MedicalFate(meal, medical_condition) = "append")

filter_meals_by_preferences(meals, diet_type, medical_condition) ==
  PreferenceLoop(meals,
                 CASE Lower(diet_type) \in {Str.veg, Str.vegetarian} -> Str.vegetarian
                   [] Lower(diet_type) \in {Str.non_veg, Str.non_vegetarian} -> Str.non_vegetarian
                   [] OTHER -> Lower(diet_type),
                 medical_condition)

\* meals as the loaders of src/main.py produce them, and a record without a name
PreferenceMeals ==
  <<Dict(<< <<"Food Item", <<"V","e","g"," ","P","u","l","a","o">>>>, <<"Ingredients", PyList(<<<<"R","i","c","e">>, <<"P","e","a","s">>>>)>>, <<"approx_calories", 200>> >>),
    Dict(<< <<"Food Item", <<"C","h","i","c","k","e","n"," ","R","i","c","e">>>>, <<"Ingredients", PyList(<<<<"C","h","i","c","k","e","n">>, <<"R","i","c","e">>>>)>>, <<"approx_calories", 350>> >>),
    Dict(<< <<"Food Item", <<"E","g","g"," ","B","h","u","r","j","i">>>>, <<"Ingredients", PyList(<<<<"E","G","G">>, <<"O","n","i","o","n">>>>)>>, <<"approx_calories", 150>> >>),
    Dict(<< <<"Food Item", <<"P","a","n","e","e","r"," ","C","u","r","r","y">>>>, <<"Ingredients", PyStr(<<"P","a","n","e","e","r",","," ","M","i","l","k",","," ","C","o","c","o","n","u","t">>)>>, <<"approx_calories", 250>>, <<"Calorie Level", <<"H","i","g","h">>>> >>),
    Dict(<< <<"name", <<"N","a","m","e","l","e","s","s">>>>, <<"Ingredients", PyList(<<<<"R","i","c","e">>>>)>> >>)>>

\* the lists handed to the filters: up to two meals in any order, or all
MealLists(meals) ==
  {<<>>, meals} \cup {<<meals[i]>> : i \in DOMAIN meals} \cup {<<meals[i], meals[j]>> : i, j \in DOMAIN meals}

\* meals handed to the medical filter: records of the fallback corpus, a
\* record built by the loader and records with the field names the filter
\* reads
MedicalMeals ==
  Map(SubSeq(get_fallback_meal_data, 1, 2)
        \o <<RowToMeal(Row(Str.Vegetarian, <<"L","u","n","c","h">>, <<"S","p","r","o","u","t"," ","B","o","w","l">>, <<"p","r","o","t","e","i","n"," ","p","o","w","d","e","r",",","s","p","r","o","u","t","s">>, <<"2","0","0">>))>>
        \o <<Dict(<< <<"Food Item", <<"S","w","e","e","t"," ","L","a","s","s","i">>>>, <<"Ingredients", PyStr(<<"C","u","r","d",","," ","H","o","n","e","y">>)>>, <<"approx_calories", 180>> >>),
             Dict(<< <<"Food Item", <<"P","r","o","t","e","i","n"," ","D","a","l">>>>, <<"Ingredients", PyList(<<<<"m","o","o","n","g"," ","d","a","l">>, <<"g","h","e","e">>>>)>>, <<"approx_calories", 350>> >>)>>,
      LAMBDA d : Obj(d, <<>>))

FilterInit ==
  /\ fs = Files
  /\ ai_available = FALSE
  /\ meal_data_cache = <<>>
  /\ pending = {}
  /\ done = <<>>
  /\ main_meal_data_cache = <<>>
  /\ loads = <<>>
  /\ user_rate_limits = <<>>
  /\ clock = 0

\* filter_meals_by_preferences is called and returns
PreferenceCall(meals, diet_type, medical_condition) ==
  /\ done = <<>>
  /\ done' = <<[fn |-> "filter_meals_by_preferences", meals |-> meals, diet_type |-> diet_type,
                medical_condition |-> medical_condition,
                result |-> filter_meals_by_preferences(meals, diet_type, medical_condition)]>>
  /\ UNCHANGED <<fs, ai_available, meal_data_cache, pending, main_meal_data_cache, loads, user_rate_limits, clock>>

\* filter_meals_by_medical_condition is called on meals that no cache holds
MedicalCall(meals, medical_condition) ==
  /\ done = <<>>
  /\ done' = <<[fn |-> "filter_meals_by_medical_condition", meals |-> meals,
                medical_condition |-> medical_condition,
                result |-> filter_meals_by_medical_condition(meals, medical_condition)]>>
  /\ UNCHANGED <<fs, ai_available, meal_data_cache, pending, main_meal_data_cache, loads, user_rate_limits, clock>>

FilterNext ==
  \/ \E meals \in MealLists(PreferenceMeals),
        diet_type \in {Str.vegan, <<"V","e","g","a","n">>, Str.jain, Str.vegetarian, Str.veg, Str.eggitarian,
                       Str.non_vegetarian, Str.non_veg, <<"N","o","n","-","V","e","g">>, Str.keto, Str.mixed},
        medical_condition \in {Str.None, Str.none, <<"D","i","a","b","e","t","e","s">>, <<"T","h","y","r","o","i","d">>} :
        PreferenceCall(meals, diet_type, medical_condition)
  \/ \E meals \in MealLists(MedicalMeals),
        medical_condition \in {<<>>, Str.none, Str.None, <<"F","l","u">>, <<"H","i","g","h"," ","F","e","v","e","r">>, <<"D","i","a","b","e","t","e","s">>, <<"O","b","e","s","i","t","y">>} :
        MedicalCall(meals, medical_condition)
  \/ Deliver

FilterSpec == FilterInit /\ [][FilterNext]_vars

(***************************************************************************)
(* The loaders called directly when the caches are nearly full: earlier    *)
(* loads have left a list under each of many query keys.                   *)
(***************************************************************************)
\* the generator's cache after n loads of states with a file, oldest first
FilledCache(n) ==
  Listed([i \in 1..n |->
            [key |-> CacheKey(Some(<<"m","a","h","a","r","a","s","h","t","r","a"," ">> \o IntText(i)), None, None, MAX_MEALS_PER_REQUEST),
             value |-> <<RowToMeal(Files["maharastra.csv"].rows[1])>>,
             loaded |-> <<RowToMeal(Files["maharastra.csv"].rows[1])>>]], n)

\* the cache of src/main.py after n loads with different filters and maxima
MainFilledCache(n) ==
  LET diets == <<Str.vegetarian, Str.non_vegetarian, Str.keto, Str.jain>>
      meals == <<Str.breakfast, Str.lunch, Str.dinner, Str.snack, Str.morning_snack, Str.evening_snack>>
  IN Listed([i \in 1..n |->
               [key |-> MainCacheKey(Some(diets[(i % 4) + 1]), Some(meals[((i \div 4) % 6) + 1]), (i \div 24) + 1),
                value |-> <<convert_csv_row_to_meal(MergedRows[1])[1]>>,
                loaded |-> <<convert_csv_row_to_meal(MergedRows[1])[1]>>]], n)

CacheInit ==
  /\ fs = WithFile(Files, MergedCsv, File(MergedRows, 1))
  /\ ai_available = FALSE
  /\ \E n \in {MAX_CACHE_SIZE - 1, MAX_CACHE_SIZE} :
        /\ meal_data_cache = FilledCache(n)
        /\ main_meal_data_cache = MainFilledCache(n)
  /\ pending = {}
  /\ done = <<>>
  /\ loads = <<>>
  /\ user_rate_limits = <<>>
  /\ clock = 0

CacheSpec == CacheInit /\ [][LoadNext]_vars

(***************************************************************************)
(* load_meal_data_from_json of src/main.py.  A document is what json.load  *)
(* returns: [t |-> "dict", DietTypes |-> ...] with the diet types and      *)
(* their categories in the order of the file, [t |-> "list", items |-> ...]*)
(* or, for a file that is not JSON, [t |-> "malformed"].                   *)
(***************************************************************************)
JsonFile(data) == [data |-> data, size_mb |-> 1]

JsonPath(state) ==
  CASE Lower(state) = Str.andhra -> "andhra_dishes.json"
    [] Lower(state) = Str.karnataka -> "karnataka.json"
    [] OTHER -> "{state.lower()}.json"

\* Convert Andhra format to standard format
AndhraMeal(meal) ==
  Dict(<< <<"Food Item", meal["DishName"]>>,
          <<"Ingredients", Get(meal, "MainIngredients", PyList(<<>>))>>,
          <<"approx_calories", Get(meal, "Calories", 200)>>,
          <<"Health Impact", Get(meal, "HealthBenefits", <<"G","o","o","d"," ","f","o","r"," ","h","e","a","l","t","h">>)>>,
          <<"Calorie Level", IF Get(meal, "Calories", 200) > 200 THEN <<"m","e","d","i","u","m">> ELSE <<"l","o","w">>>>,
          <<"Category", Get(meal, "Category", Str.General)>>,
          <<"Region", Get(meal, "Region", <<"A","n","d","h","r","a"," ","P","r","a","d","e","s","h">>)>>,
          <<"SpecialNote", Get(meal, "SpecialNote", <<>>)>> >>)

\* the meals of the nested document, in the order of the file
AndhraMeals(diet_types) ==
  Concat(Map(diet_types, LAMBDA diet_data :
    Concat(Map(diet_data.categories, LAMBDA meal_list :
      Map(SelectSeq(meal_list.dishes, LAMBDA meal : "DishName" \in DOMAIN meal), AndhraMeal)))))

\* the meals of the simple format
ListedMeals(items) ==
  Concat(Map(items, LAMBDA item :
    IF "Items" \in DOMAIN item THEN item["Items"]
    ELSE IF "Food Item" \in DOMAIN item THEN <<item>>
    ELSE <<>>))

validate_meal_structure(meal) ==
  /\ {"Food Item", "Ingredients", "approx_calories"} \subseteq DOMAIN meal
  /\ Len(meal["Food Item"]) >= 1
  /\ meal["Ingredients"].t = "list" /\ Len(meal["Ingredients"].v) >= 1
  /\ meal["approx_calories"] > 0

\* json.load has returned data
JsonLoaded(state, data, cache) ==
  LET meals == IF Lower(state) = Str.andhra /\ data.t = "dict" /\ "DietTypes" \in DOMAIN data
               THEN AndhraMeals(data.DietTypes)
               ELSE IF data.t = "list" THEN ListedMeals(data.items)
               ELSE <<>>
  IN IF data.t # "malformed" /\ SelectSeq(meals, validate_meal_structure) # <<>>
     THEN LoadResult(SelectSeq(meals, validate_meal_structure), cache, 1, None)
     ELSE LoadResult(main_get_fallback_meal_data, cache, 1, None)

main_load_meal_data_from_json(files, cache, state) ==
  IF Lower(state) = Str.maharashtra
  THEN main_load_meal_data_from_csv(files, cache, None, None, MAX_MEALS_PER_REQUEST)
  ELSE IF JsonPath(state) \notin DOMAIN files
  THEN LoadResult(main_get_fallback_meal_data, cache, 0, None)
  ELSE JsonLoaded(state, files[JsonPath(state)].data, cache)

(***************************************************************************)
(* The two conversions of src/main.py applied to sources whose meals have  *)
(* calories on both sides of the cutoffs.                                  *)
(***************************************************************************)
CalorieValues == {1, 150, 199, 200, 201, 350, 499, 500, 501, 800}

Dish(name, calories) ==
  Dict(<< <<"DishName", name>>, <<"MainIngredients", PyList(<<<<"R","i","c","e">>, <<"T","a","m","a","r","i","n","d">>>>)>>,
          <<"Calories", calories>>, <<"Category", <<"L","u","n","c","h">>>> >>)

\* a document with two dishes of a diet type, one of them without calories
AndhraDocument(calories) ==
  [t |-> "dict",
   DietTypes |-> <<[diet |-> Str.Vegetarian,
                    categories |-> <<[category |-> <<"L","u","n","c","h">>, dishes |-> <<Dish(<<"P","u","l","i","h","o","r","a">>, calories)>>],
                                     [category |-> <<"D","i","n","n","e","r">>,
                                      dishes |-> <<Dict(<< <<"DishName", <<"P","e","s","a","r","a","t","t","u">>>>,
                                                           <<"MainIngredients", PyList(<<<<"M","o","o","n","g">>>>)>> >>),
                                                   Dict(<< <<"Name", <<"U","n","n","a","m","e","d">>>> >>)>>]>>]>>]

KarnatakaDocument ==
  [t |-> "list",
   items |-> <<Dict(<< <<"Items", <<main_get_fallback_meal_data[1],
                                     Dict(<< <<"Food Item", <<"B","i","s","i"," ","B","e","l","e"," ","B","a","t","h">>>>, <<"Ingredients", PyList(<<>>)>>,
                                             <<"approx_calories", 600>>, <<"Calorie Level", <<"h","i","g","h">>>> >>)>> >> >>),
               main_get_fallback_meal_data[2]>>]

ConvertFileSystems ==
  {WithFile(WithFile(Files, "andhra_dishes.json", JsonFile(AndhraDocument(c))),
            "karnataka.json", JsonFile(KarnatakaDocument)) : c \in CalorieValues}
  \cup {WithFile(Files, "andhra_dishes.json", JsonFile([t |-> "malformed"])),
        WithFile(Files, MergedCsv, File(MergedRows, 1))}

ConvertInit ==
  /\ fs \in ConvertFileSystems
  /\ ai_available = FALSE
  /\ meal_data_cache = <<>>
  /\ pending = {}
  /\ done = <<>>
  /\ main_meal_data_cache = <<>>
  /\ loads = <<>>
  /\ user_rate_limits = <<>>
  /\ clock = 0

\* convert_csv_row_to_meal is called on a row and returns
ConvertCall(row) ==
  /\ done = <<>>
  /\ done' = <<[fn |-> "convert_csv_row_to_meal", row |-> row, result |-> convert_csv_row_to_meal(row)]>>
  /\ UNCHANGED <<fs, ai_available, meal_data_cache, pending, main_meal_data_cache, loads, user_rate_limits, clock>>

JsonReturned(state, res) ==
  /\ done' = <<[fn |-> "load_meal_data_from_json", state |-> state, result |-> res.meals]>>
  /\ main_meal_data_cache' = res.cache

\* load_meal_data_from_json is called for a state and returns
JsonCall(state) ==
  /\ done = <<>>
  /\ JsonReturned(state, main_load_meal_data_from_json(fs, main_meal_data_cache, state))
  /\ UNCHANGED <<fs, ai_available, meal_data_cache, pending, loads, user_rate_limits, clock>>

ConvertNext ==
  \/ \E calories \in CalorieValues \cup {0, 2000} :
        ConvertCall(Row(Str.Vegetarian, <<"L","u","n","c","h">>, <<"P","r","o","t","e","i","n"," ","D","a","l">>, <<"M","o","o","n","g"," ","D","a","l",","," ","G","h","e","e">>, IntText(calories)))
  \/ ConvertCall(MergedRows[3])
  \/ \E state \in {Str.andhra, <<"A","n","d","h","r","a">>, Str.karnataka, <<"M","a","h","a","r","a","s","h","t","r","a">>, <<"g","o","a">>} : JsonCall(state)
  \/ Deliver

ConvertSpec == ConvertInit /\ [][ConvertNext]_vars

(***************************************************************************)
(* check_rate_limit of src/main.py, called for one user at instants that   *)
(* lie just before and just after the end of a window.                     *)
(***************************************************************************)
RATE_LIMIT_WINDOW == 60
MAX_REQUESTS_PER_WINDOW == 30

\* user_limit['requests'].append(now), then the clean-up of old requests
Appended(user_limit, now, current_requests) ==
  IF Len(user_limit.requests) + 1 > MAX_REQUESTS_PER_WINDOW * 2
  THEN [user_limit EXCEPT !.requests = current_requests]
  ELSE [user_limit EXCEPT !.requests = Append(@, now)]

\* the requests of the user within the window have been counted
Counted(limits, user_id, now, user_limit, current_requests) ==
  IF Len(current_requests) >= MAX_REQUESTS_PER_WINDOW
  THEN [result |-> FALSE, limits |-> Put(limits, user_id, user_limit)]
  ELSE [result |-> TRUE, limits |-> Put(limits, user_id, Appended(user_limit, now, current_requests))]

\* the window of the user has been reset if it had passed
Windowed(limits, user_id, now, user_limit) ==
  Counted(limits, user_id, now, user_limit,
          SelectSeq(user_limit.requests, LAMBDA req : req > now - RATE_LIMIT_WINDOW))

\* the user has an entry
Known(limits, user_id, now) ==
  Windowed(limits, user_id, now,
           IF now - limits[user_id].last_reset > RATE_LIMIT_WINDOW
           THEN [requests |-> <<>>, last_reset |-> now]
           ELSE limits[user_id])

\* the answer and user_rate_limits after the call
check_rate_limit(limits, user_id, now) ==
  IF user_id \notin DOMAIN limits
  THEN Known(Put(limits, user_id, [requests |-> <<>>, last_reset |-> now]), user_id, now)
  ELSE Known(limits, user_id, now)

\* calls of check_rate_limit in one run
MaxCalls == 32
UserIds == {1}
\* the instants at which calls are made: the start, one second before the
\* window of the first call ends, and one and two seconds after it
Instants == {0, RATE_LIMIT_WINDOW - 1, RATE_LIMIT_WINDOW + 1, RATE_LIMIT_WINDOW + 2}

RateInit ==
  /\ fs = Files
  /\ ai_available = FALSE
  /\ meal_data_cache = <<>>
  /\ pending = {}
  /\ done = <<>>
  /\ main_meal_data_cache = <<>>
  /\ loads = <<>>
  /\ user_rate_limits = <<>>
  /\ clock = 0

\* time passes
Tick(later) ==
  /\ later > clock
  /\ clock' = later
  /\ UNCHANGED <<fs, ai_available, meal_data_cache, pending, done, main_meal_data_cache, loads, user_rate_limits>>

RateAnswered(user_id, res) ==
  /\ user_rate_limits' = res.limits
  /\ loads' = Append(loads, [fn |-> "check_rate_limit", user_id |-> user_id, now |-> clock, result |-> res.result])

\* get_meal_plan asks whether the user may make a request
CheckRateLimit(user_id) ==
  /\ Len(loads) < MaxCalls
  /\ RateAnswered(user_id, check_rate_limit(user_rate_limits, user_id, clock))
  /\ UNCHANGED <<fs, ai_available, meal_data_cache, pending, done, main_meal_data_cache, clock>>

RateNext ==
  \/ \E later \in Instants : Tick(later)
  \/ \E user_id \in UserIds : CheckRateLimit(user_id)

RateSpec == RateInit /\ [][RateNext]_vars

(***************************************************************************)
(* Properties of the calls of generate_ingredient_based_meal_plan          *)
(***************************************************************************)
\* what the request of a call asks for
RequestedDiet(call) ==
  Lower(Get(call.user_data, "diet_type", Get(call.user_data, "diet", PyStr(Str.vegetarian))).v)
RequestedState(call) == Lower(Get(call.user_data, "state", PyStr(Str.maharashtra)).v)
RequestedCsvDiet(call) ==
  IF HasKey(diet_mapping, RequestedDiet(call)) THEN Entry(diet_mapping, RequestedDiet(call)).value
  ELSE Str.Vegetarian
\* the calories and the ingredient entries a meal record carries, under
\* whichever field name its producer uses
StoredCalories(d) == Get(d, "calories", Get(d, "approx_calories", Get(d, "Calories (kcal)", 0)))
StoredIngredients(d) ==
  IF "Ingredients" \in DOMAIN d
  THEN (IF d["Ingredients"].t = "str" THEN Split(d["Ingredients"].v, ",") ELSE d["Ingredients"].v)
  ELSE Get(d, "ingredients", <<>>)
StoredName(d) == Get(d, "Food Item", Get(d, "name", <<>>))

\* C1: every call returns a non-empty text and never raises to its caller,
\* whatever the user context, the ingredient text and the answer of the
\* generation service.
C1_Totality ==
  done # <<>> => done[1].status = "returned" /\ TextHead(done[1].response) # <<>>

\* C2: every meal listed in a FullMatch or PartialMatch response comes from a
\* catalog row of the user's diet type (or from the fallback corpus, whose
\* records carry no diet type).
C2_DietRespected ==
  done # <<>> =>
    \A i \in DOMAIN done[1].listed :
       "diet_type" \in DOMAIN done[1].listed[i]
         => done[1].listed[i]["diet_type"] = RequestedCsvDiet(done[1])

\* C3: under a recognised condition with a calorie ceiling, the calories of
\* every meal that survives the medical filter do not exceed the ceiling.
C3_CalorieCeiling ==
  done # <<>> /\ done[1].config # <<>> /\ "max_calories" \in DOMAIN done[1].config[1] =>
    \A i \in DOMAIN done[1].survivors :
       StoredCalories(done[1].survivors[i]) <= done[1].config[1].max_calories

\* C4: under a recognised condition, no meal survives the medical filter if
\* an avoid-term of the condition occurs, case-insensitively, in its name or
\* in an entry of its ingredient list.
C4_AvoidTerms ==
  done # <<>> /\ done[1].config # <<>> =>
    \A i \in DOMAIN done[1].survivors :
       \A a \in DOMAIN Get(done[1].config[1], "avoid", <<>>) :
          /\ ~IsSub(done[1].config[1].avoid[a], Lower(StoredName(done[1].survivors[i])))
          /\ \A e \in DOMAIN StoredIngredients(done[1].survivors[i]) :
                ~IsSub(done[1].config[1].avoid[a], Lower(StoredIngredients(done[1].survivors[i])[e]))

\* C5: for a request without a medical condition, the medical bonus of
\* every scored meal is 0, whatever earlier requests carried.
C5_MedicalScoreTransient ==
  done # <<>> /\ "medical" \notin DOMAIN done[1].user_data =>
    \A i \in DOMAIN done[1].bonuses : done[1].bonuses[i] = 0

\* C6: the meal records held under a cache key stay field-for-field equal
\* to what the loader produced when the entry was written.
C6_CacheIntact ==
  \A c \in DOMAIN meal_data_cache : meal_data_cache[c].value = meal_data_cache[c].loaded

StageOrder == <<"FullMatch", "PartialMatch", "GeneratedText", "StaticFallback">>
StageIndex(name) == CHOOSE i \in DOMAIN StageOrder : StageOrder[i] = name

NotConfiguredText(call) ==
  Respond(FALSE, call.ingredients, call.meal_type, RequestedDiet(call), RequestedState(call),
          <<>>, <<>>, <<>>, <<>>, <<>>, <<>>).response

\* C8: a request whose match stages are both empty makes exactly one
\* generation call when generation is configured and none otherwise; when
\* the call answers with a non-success status or raises (a timeout raises),
\* the response is the StaticFallback text, identical to the text of the
\* same request when generation is not configured.
C8_FailureFallsThrough ==
  done # <<>> =>
    /\ done[1].gen_calls = (IF done[1].reply = "none" THEN 0 ELSE 1)
    /\ done[1].reply # "none" => ai_available
    /\ done[1].reply \in {"status", "error"} =>
         /\ done[1].trace[Len(done[1].trace)] = Stage("StaticFallback", "result")
         /\ done[1].response = NotConfiguredText(done[1])
         /\ IsSub(done[1].ingredients, done[1].response.ingredients)

\* a lunch request whose generation call raised and that got the static text
C8_Witness ==
  /\ done # <<>>
  /\ done[1].reply = "error"
  /\ done[1].gen_calls = 1
  /\ done[1].meal_type = Str.lunch
  /\ done[1].response.kind = "static"

\* a catalog row mentions the ingredient or one of its similar ingredients
RowMentions(row, ingredient) ==
  \E w \in Range(get_similar_ingredients(ingredient)) \cup {ingredient} :
     \/ IsSub(w, Lower(Get(row, "Dish Combo", <<>>)))
     \/ IsSub(w, Lower(Get(row, "Ingredients (per serving)", <<>>)))
CatalogMentions(ingredients) ==
  \E f \in DOMAIN fs : \E r \in DOMAIN fs[f].rows :
     \E i \in DOMAIN IngredientList(ingredients) : RowMentions(fs[f].rows[r], IngredientList(ingredients)[i])

\* C9: when no catalog meal mentions a requested ingredient or a similar
\* one and generation is unavailable or failing, the response is the
\* StaticFallback text with the ingredient text in it, whatever the meal
\* type, the region, the medical condition and the earlier requests.
C9_NoMatchStatic ==
  done # <<>> /\ done[1].status = "returned" /\ done[1].ingredients # <<>>
    /\ ~CatalogMentions(done[1].ingredients) /\ done[1].reply \notin {"ok", "empty"} =>
      /\ done[1].response.kind = "static"
      /\ IsSub(done[1].ingredients, done[1].response.ingredients)

\* loads i and i+1 are the same loader called with the same query
SameQueryTwice(i) ==
  /\ i + 1 \in DOMAIN loads
  /\ loads[i].loader = loads[i + 1].loader
  /\ loads[i].query = loads[i + 1].query

\* C10 (as stated): two consecutive loads with the same query return
\* list-equal results and the second does not read the source again, also
\* when the first matched no row or the filters were rejected as invalid.
C10_SecondNeverReads ==
  \A i \in DOMAIN loads :
     SameQueryTwice(i) => loads[i].meals = loads[i + 1].meals /\ loads[i + 1].reads = 0

\* C10: two consecutive loads with the same query against an unchanged source
\* return list-equal results; the second call does not read the source
\* exactly when the first call's result was held in the cache (it obtained at
\* least one meal) or the first call did not read the source either (the
\* file is missing or too large).  A first call that read the source and
\* ended in the fallback corpus is followed by a second read.
C10_CacheIdempotence ==
  \A i \in DOMAIN loads :
     SameQueryTwice(i) =>
       /\ loads[i].meals = loads[i + 1].meals
       /\ loads[i + 1].reads = 0 <=> (loads[i].stored \/ loads[i].reads = 0)

C10_Witness ==
  /\ SameQueryTwice(1)
  /\ loads[1].loader = "main"
  /\ loads[1].query.diet_type = Some(<<"M","a","r","t","i","a","n">>)
  /\ loads[1].reads = 1
  /\ loads[1].stored
  /\ loads[2].reads = 0
  /\ loads[2].meals = loads[1].meals
  /\ loads[2].meals # main_get_fallback_meal_data

\* C11: every loader call returns, and whenever its source is missing,
\* oversized or malformed the result is exactly the loader's fallback corpus,
\* never a partially loaded list.
C11_FailSoft ==
  \A i \in DOMAIN loads :
     LET f == IF loads[i].loader = "main" THEN MergedCsv ELSE CsvPath(loads[i].query.state) IN
     (\/ f \notin DOMAIN fs
      \/ loads[i].loader = "main" /\ fs[f].size_mb > MAX_FILE_SIZE_MB
      \/ \E r \in DOMAIN fs[f].rows : Unparsable(fs[f].rows[r]))
     => loads[i].meals = (IF loads[i].loader = "main" THEN main_get_fallback_meal_data
                          ELSE get_fallback_meal_data)

\* C12: no row whose calories lie outside (0, 2000] becomes a meal of the
\* list a load of src/main.py returns.
C12_RowValidation ==
  \A i \in DOMAIN loads :
     loads[i].loader = "main" /\ loads[i].meals # main_get_fallback_meal_data =>
       \A m \in DOMAIN loads[i].meals :
          loads[i].meals[m]["approx_calories"] > 0 /\ loads[i].meals[m]["approx_calories"] <= 2000

\* C20: no load call returns more than MAX_MEALS_PER_REQUEST (50) meals,
\* whatever maximum the caller passes.
C20_ResultCeiling ==
  \A i \in DOMAIN loads : Len(loads[i].meals) <= MAX_MEALS_PER_REQUEST

\* C13 as stated: in a FullMatch or PartialMatch response no two listed meals
\* share a normalized name, and the meal kept for a name is the highest-scoring
\* candidate of that name and, on equal score, the one that comes first in
\* the catalog file.
C13_KeptIsCatalogFirst ==
  done # <<>> /\ done[1].response.kind \in {"full", "partial"} =>
    LET call == done[1]
        rows == fs[CsvPath(Some(RequestedState(call)))].rows
        Plain(d) == [k \in DOMAIN d \ {"medical_score"} |-> d[k]]
        CatalogPos(d) == IF \E r \in DOMAIN rows : RowToMeal(rows[r]) = Plain(d)
                         THEN CHOOSE r \in DOMAIN rows :
                                /\ RowToMeal(rows[r]) = Plain(d)
                                /\ \A q \in 1..(r - 1) : RowToMeal(rows[q]) # Plain(d)
                         ELSE Len(rows) + 1
        Score(d) == IF call.response.kind = "full"
                    THEN MatchScore(d, IngredientList(call.ingredients), call.meal_type, RequestedState(call))
                    ELSE 5
        Candidate(d) == IF call.response.kind = "full" THEN Score(d) > 0
                        ELSE \E u \in DOMAIN IngredientList(call.ingredients) :
                                PartialCriterion(d, IngredientList(call.ingredients)[u])
    IN /\ \A i, j \in DOMAIN call.listed :
             i # j => NormalizedName(call.listed[i]) # NormalizedName(call.listed[j])
       /\ \A i \in DOMAIN call.listed : \A j \in DOMAIN call.survivors :
             Candidate(call.survivors[j]) /\ NormalizedName(call.survivors[j]) = NormalizedName(call.listed[i])
               => \/ Score(call.survivors[j]) < Score(call.listed[i])
                  \/ /\ Score(call.survivors[j]) = Score(call.listed[i])
                     /\ CatalogPos(call.listed[i]) <= CatalogPos(call.survivors[j])

\* C13: in a FullMatch or PartialMatch response no two listed meals share a
\* normalized name, and the meal kept for a name is the highest-scoring
\* candidate of that name and, on equal score, the one that comes first in
\* the list handed to the scoring pass (the catalog order, re-ordered by
\* medical score when a medical condition applies).
C13_Deduplication ==
  done # <<>> /\ done[1].response.kind \in {"full", "partial"} =>
    LET call == done[1]
        Score(d) == IF call.response.kind = "full"
                    THEN MatchScore(d, IngredientList(call.ingredients), call.meal_type, RequestedState(call))
                    ELSE 5
        Candidate(d) == IF call.response.kind = "full" THEN Score(d) > 0
                        ELSE \E u \in DOMAIN IngredientList(call.ingredients) :
                                PartialCriterion(d, IngredientList(call.ingredients)[u])
    IN /\ \A i, j \in DOMAIN call.listed :
             i # j => NormalizedName(call.listed[i]) # NormalizedName(call.listed[j])
       /\ \A i \in DOMAIN call.listed : \E p \in DOMAIN call.survivors :
             /\ call.survivors[p] = call.listed[i]
             /\ \A j \in DOMAIN call.survivors :
                   Candidate(call.survivors[j])
                   /\ NormalizedName(call.survivors[j]) = NormalizedName(call.listed[i])
                     => \/ Score(call.survivors[j]) < Score(call.listed[i])
                        \/ Score(call.survivors[j]) = Score(call.listed[i]) /\ p <= j

\* a listed meal shares its normalized name and its score with a different
\* candidate that the medical filter has moved behind it
C13_Witness ==
  /\ done # <<>>
  /\ done[1].response.kind = "full"
  /\ done[1].config # <<>>
  /\ \E i \in DOMAIN done[1].listed : \E p, j \in DOMAIN done[1].survivors :
        /\ done[1].survivors[p] = done[1].listed[i]
        /\ p < j
        /\ NormalizedName(done[1].survivors[j]) = NormalizedName(done[1].listed[i])
        /\ Get(done[1].survivors[j], "medical_score", 0) < Get(done[1].listed[i], "medical_score", 0)
        /\ MatchScore(done[1].survivors[j], IngredientList(done[1].ingredients), done[1].meal_type, RequestedState(done[1]))
             = MatchScore(done[1].listed[i], IngredientList(done[1].ingredients), done[1].meal_type, RequestedState(done[1]))

\* C14: when at least one meal handed to the scoring pass has a positive
\* score, the response is a FullMatch listing exactly min(3, number of
\* distinct normalized names among the positive-score meals) meals, in
\* non-increasing score order, each with a positive score, and no unlisted
\* name has a meal that scores higher than a listed one.
C14_FullMatchShape ==
  done # <<>> =>
    LET call == done[1]
        Score(d) == MatchScore(d, IngredientList(call.ingredients), call.meal_type, RequestedState(call))
        positive == {j \in DOMAIN call.survivors : Score(call.survivors[j]) > 0}
        names == {NormalizedName(call.survivors[j]) : j \in positive}
    IN positive # {} =>
         /\ call.response.kind = "full"
         /\ Len(call.listed) = (IF Cardinality(names) < 3 THEN Cardinality(names) ELSE 3)
         /\ Len(call.response.items) = Len(call.listed)
         /\ \A i \in DOMAIN call.listed :
               /\ Score(call.listed[i]) > 0
               /\ call.response.items[i].score = Score(call.listed[i])
               /\ \A k \in DOMAIN call.listed : i < k => Score(call.listed[i]) >= Score(call.listed[k])
               /\ \A j \in positive :
                     (\A k \in DOMAIN call.listed :
                         NormalizedName(call.listed[k]) # NormalizedName(call.survivors[j]))
                       => Score(call.survivors[j]) <= Score(call.listed[i])

\* a FullMatch that lists three meals out of more than three distinct names
\* with a positive score, next to meals that score 0
C14_Witness ==
  /\ done # <<>>
  /\ done[1].response.kind = "full"
  /\ Len(done[1].listed) = 3
  /\ Cardinality({NormalizedName(done[1].survivors[j]) : j \in
        {q \in DOMAIN done[1].survivors :
           MatchScore(done[1].survivors[q], IngredientList(done[1].ingredients), done[1].meal_type, RequestedState(done[1])) > 0}}) > 3
  /\ \E j \in DOMAIN done[1].survivors :
        MatchScore(done[1].survivors[j], IngredientList(done[1].ingredients), done[1].meal_type, RequestedState(done[1])) = 0

\* C15 as stated: of two meals handed to the scoring pass that are identical
\* except for one ingredient, which equals a requested ingredient in the one
\* and only partially matches it in the other, the exact-match meal scores
\* strictly higher, whatever else is requested.
C15_ExactAlwaysOutranks ==
  done # <<>> =>
    LET call == done[1]
        requested == IngredientList(call.ingredients)
        Score(d) == MatchScore(d, requested, call.meal_type, RequestedState(call))
        Partly(u, mi) == u # mi /\ (IsSub(u, mi) \/ IsSub(mi, u))
        Pair(x, y) ==
          /\ DOMAIN x = DOMAIN y
          /\ \A k \in DOMAIN x \ {"ingredients", "Ingredients"} : x[k] = y[k]
          /\ Len(MealIngredients(x)) = Len(MealIngredients(y))
          /\ \E p \in DOMAIN MealIngredients(x) :
                /\ \A q \in DOMAIN MealIngredients(x) \ {p} : MealIngredients(x)[q] = MealIngredients(y)[q]
                /\ \E u \in DOMAIN requested :
                      MealIngredients(x)[p] = requested[u] /\ Partly(requested[u], MealIngredients(y)[p])
    IN \A i, j \in DOMAIN call.survivors :
          Pair(call.survivors[i], call.survivors[j]) => Score(call.survivors[i]) > Score(call.survivors[j])

\* C15: the score of a listed meal is the sum, over the requested ingredients,
\* of 8 if the ingredient occurs in the meal name, 2 if one of its similar
\* ingredients occurs in the meal name and, per meal ingredient, 10 if equal,
\* else 5 if one contains the other, else 3 if a similar ingredient occurs in
\* it, plus the bonuses for meal type, region and medical score.  When a single
\* ingredient is requested, of two meals identical except for one ingredient,
\* which equals the requested one in the one and only partially matches it in
\* the other, the exact-match meal scores strictly higher and the other is
\* not listed.
C15_IngredientScoring ==
  done # <<>> =>
    LET call == done[1]
        requested == IngredientList(call.ingredients)
        Score(d) == MatchScore(d, requested, call.meal_type, RequestedState(call))
        Similar(u, text) == \E s \in DOMAIN get_similar_ingredients(u) : IsSub(get_similar_ingredients(u)[s], text)
        Points(u, d) ==
          (IF IsSub(u, MatchName(d)) THEN 8 ELSE 0)
          + (IF Similar(u, MatchName(d)) THEN 2 ELSE 0)
          + SumSeq([p \in DOMAIN MealIngredients(d) |->
                      IF u = MealIngredients(d)[p] THEN 10
                      ELSE IF IsSub(u, MealIngredients(d)[p]) \/ IsSub(MealIngredients(d)[p], u) THEN 5
                      ELSE IF Similar(u, MealIngredients(d)[p]) THEN 3
                      ELSE 0])
        Partly(u, mi) == u # mi /\ (IsSub(u, mi) \/ IsSub(mi, u))
        Pair(x, y) ==
          /\ DOMAIN x = DOMAIN y
          /\ \A k \in DOMAIN x \ {"ingredients", "Ingredients"} : x[k] = y[k]
          /\ Len(MealIngredients(x)) = Len(MealIngredients(y))
          /\ \E p \in DOMAIN MealIngredients(x) :
                /\ \A q \in DOMAIN MealIngredients(x) \ {p} : MealIngredients(x)[q] = MealIngredients(y)[q]
                /\ MealIngredients(x)[p] = requested[1] /\ Partly(requested[1], MealIngredients(y)[p])
    IN /\ call.response.kind = "full" =>
            \A i \in DOMAIN call.listed :
               call.response.items[i].score
                 = SumSeq([u \in DOMAIN requested |-> Points(requested[u], call.listed[i])])
                   + CategoryBonus(call.listed[i], call.meal_type)
                   + RegionBonus(call.listed[i], RequestedState(call))
                   + MedicalBonus(call.listed[i])
       /\ Len(requested) = 1 =>
            \A i, j \in DOMAIN call.survivors :
               Pair(call.survivors[i], call.survivors[j]) =>
                 /\ Score(call.survivors[i]) > Score(call.survivors[j])
                 /\ \A k \in DOMAIN call.listed : call.listed[k] # call.survivors[j]

\* one ingredient is requested, a meal that has it is listed with 10 points
\* and its twin with an ingredient that only contains it scores 5
C15_Witness ==
  /\ done # <<>>
  /\ done[1].response.kind = "full"
  /\ Len(IngredientList(done[1].ingredients)) = 1
  /\ \E i \in DOMAIN done[1].listed : \E j \in DOMAIN done[1].survivors :
        /\ done[1].response.items[i].score = 10
        /\ MealIngredients(done[1].listed[i]) = <<IngredientList(done[1].ingredients)[1]>>
        /\ MatchName(done[1].survivors[j]) = MatchName(done[1].listed[i])
        /\ Len(MealIngredients(done[1].survivors[j])) = 1
        /\ MealIngredients(done[1].survivors[j])[1] # IngredientList(done[1].ingredients)[1]
        /\ IsSub(IngredientList(done[1].ingredients)[1], MealIngredients(done[1].survivors[j])[1])
        /\ MatchScore(done[1].survivors[j], IngredientList(done[1].ingredients), done[1].meal_type, RequestedState(done[1])) = 5

\* C16: the score of every listed meal contains, once, 15 when the category
\* the record stores (under Category or under meal_type) names the requested
\* meal type, and 10 when it only names a variation of it.
C16_CategoryBonus ==
  done # <<>> /\ done[1].response.kind = "full" =>
    LET call == done[1]
        requested == IngredientList(call.ingredients)
        Category(d) == Lower(Get(d, "Category", Get(d, "meal_type", <<>>)))
        Bonus(d) ==
          IF IsSub(Lower(call.meal_type), Category(d)) THEN 15
          ELSE IF \E w \in DOMAIN get_meal_type_variations(call.meal_type) :
                     IsSub(get_meal_type_variations(call.meal_type)[w], Category(d)) THEN 10
          ELSE 0
    IN \A i \in DOMAIN call.listed :
          call.response.items[i].score
            = SumSeq([u \in DOMAIN requested |-> IngredientPoints(requested[u], call.listed[i])])
              + Bonus(call.listed[i])
              + RegionBonus(call.listed[i], RequestedState(call))
              + MedicalBonus(call.listed[i])

\* C17: under the diet types vegan, jain, vegetarian (or veg) and eggitarian,
\* in any letter case and with any medical condition, no meal
\* filter_meals_by_preferences returns has an ingredient that contains, in any
\* letter case, a term of the reject list of that diet.
C17_DietRejects ==
  done # <<>> =>
    LET call == done[1]
        Rejects(diet) ==
          CASE diet = Str.vegan -> {<<"m","i","l","k">>, <<"g","h","e","e">>, <<"c","u","r","d">>, <<"e","g","g">>, <<"m","e","a","t">>, <<"f","i","s","h">>, <<"c","h","i","c","k","e","n">>}
            [] diet = Str.jain -> {<<"o","n","i","o","n">>, <<"g","a","r","l","i","c">>, <<"p","o","t","a","t","o">>, <<"e","g","g">>, <<"c","h","i","c","k","e","n">>, <<"f","i","s","h">>, <<"m","e","a","t">>, <<"p","r","a","w","n">>}
            [] diet \in {Str.vegetarian, Str.veg} -> {<<"c","h","i","c","k","e","n">>, <<"f","i","s","h">>, <<"m","e","a","t">>, <<"p","r","a","w","n">>, <<"e","g","g">>}
            [] diet = Str.eggitarian -> {<<"c","h","i","c","k","e","n">>, <<"f","i","s","h">>, <<"m","e","a","t">>, <<"p","r","a","w","n">>}
            [] OTHER -> {}
        Has(meal, term) ==
          LET ingredients == Get(meal, "Ingredients", PyList(<<>>)) IN
          IF ingredients.t = "str" THEN IsSub(term, Lower(ingredients.v))
          ELSE \E e \in DOMAIN ingredients.v : IsSub(term, Lower(ingredients.v[e]))
    IN call.fn = "filter_meals_by_preferences" =>
         \A i \in DOMAIN call.result : \A term \in Rejects(Lower(call.diet_type)) :
            ~Has(call.result[i], term)

\* a vegan call on meals with milk and with egg in capitals, under a medical
\* condition, returns a meal and drops the others
C17_Witness ==
  /\ done # <<>>
  /\ done[1].fn = "filter_meals_by_preferences"
  /\ Lower(done[1].diet_type) = Str.vegan
  /\ Lower(done[1].medical_condition) # Str.none
  /\ \E i, j \in DOMAIN done[1].meals :
        /\ done[1].meals[i]["Ingredients"] = PyList(<<<<"E","G","G">>, <<"O","n","i","o","n">>>>)
        /\ done[1].meals[j]["Ingredients"] = PyList(<<<<"R","i","c","e">>, <<"P","e","a","s">>>>)
  /\ Len(done[1].result) = 1
  /\ done[1].result[1]["Ingredients"] = PyList(<<<<"R","i","c","e">>, <<"P","e","a","s">>>>)

\* C18: with diet type non-vegetarian (or non-veg) and no medical condition,
\* filter_meals_by_preferences returns every named meal of its input, and
\* every returned meal that mentions chicken, fish, meat, prawn or egg comes
\* before every returned meal that mentions none of them.
C18_NonVegetarianFirst ==
  done # <<>> =>
    LET call == done[1]
        Preferred(meal) == Mentions(meal, <<<<"c","h","i","c","k","e","n">>, <<"f","i","s","h">>, <<"m","e","a","t">>, <<"p","r","a","w","n">>, <<"e","g","g">>>>)
    IN /\ call.fn = "filter_meals_by_preferences"
       /\ Lower(call.diet_type) \in {Str.non_vegetarian, Str.non_veg}
       /\ Lower(call.medical_condition) = Str.none
       => /\ \A m \in DOMAIN call.meals : "Food Item" \in DOMAIN call.meals[m] =>
                \E r \in DOMAIN call.result : call.result[r] = call.meals[m]
          /\ \A i, j \in DOMAIN call.result :
                Preferred(call.result[i]) /\ ~Preferred(call.result[j]) => i < j

\* C19: for an absent or 'none' condition and for a condition string that
\* contains no keyword of any table entry, filter_meals_by_medical_condition
\* returns exactly its input: the same meals in the same order, no field
\* changed and no medical_score assigned.
C19_MedicalFailOpen ==
  done # <<>> =>
    LET call == done[1] IN
    /\ call.fn = "filter_meals_by_medical_condition"
    /\ \/ call.medical_condition = <<>>
       \/ Lower(call.medical_condition) = Str.none
       \/ \A e \in DOMAIN MEDICAL_CONDITION_MAPPING : \A k \in DOMAIN MEDICAL_CONDITION_MAPPING[e].keywords :
             ~IsSub(MEDICAL_CONDITION_MAPPING[e].keywords[k], Lower(call.medical_condition))
    => call.result = call.meals

\* a call with a condition no table entry knows, on a meal that a known
\* condition would remove and a meal it would score
C19_Witness ==
  /\ done # <<>>
  /\ done[1].fn = "filter_meals_by_medical_condition"
  /\ done[1].medical_condition = <<"F","l","u">>
  /\ Len(done[1].meals) = 2
  /\ done[1].result = done[1].meals
  /\ Len(filter_meals_by_medical_condition(done[1].meals, <<"D","i","a","b","e","t","e","s">>)) = 1
  /\ filter_meals_by_medical_condition(done[1].meals, <<"D","i","a","b","e","t","e","s">>)[1].d["medical_score"] = 5

\* C21: a load leaves each meal cache at or below MAX_CACHE_SIZE entries; it
\* leaves the cache untouched or inserts one new key at the end, and when the
\* insertion makes n entries with n above the ceiling, exactly the
\* n - MAX_CACHE_SIZE + 10 oldest entries are removed and the new one stays.
C21_BoundedFifo ==
  [][\A pair \in {<<meal_data_cache, meal_data_cache'>>, <<main_meal_data_cache, main_meal_data_cache'>>} :
       LET old == pair[1]
           new == pair[2]
           n == Len(old) + 1
       IN /\ Len(new) <= MAX_CACHE_SIZE
          /\ new # old =>
               /\ new[Len(new)].key \notin {old[i].key : i \in DOMAIN old}
               /\ IF n > MAX_CACHE_SIZE
                  THEN /\ Len(new) = n - (n - MAX_CACHE_SIZE + 10)
                       /\ \A i \in 1..(Len(new) - 1) : new[i] = old[i + (n - MAX_CACHE_SIZE + 10)]
                  ELSE /\ Len(new) = n
                       /\ \A i \in DOMAIN old : new[i] = old[i]]_vars

\* a load has just inserted its key into a full cache of src/main.py: the
\* eleven oldest entries are gone and the new key is the last one
C21_Witness ==
  /\ Len(main_meal_data_cache) = MAX_CACHE_SIZE - 10
  /\ main_meal_data_cache[1].key = MainFilledCache(12)[12].key
  /\ loads # <<>>
  /\ loads[Len(loads)].loader = "main"
  /\ main_meal_data_cache[Len(main_meal_data_cache)].key
       = MainCacheKey(loads[Len(loads)].query.diet_type, loads[Len(loads)].query.meal_type, loads[Len(loads)].query.max_meals)

\* C22: a load whose diet type is not an allowed one returns the same meals as
\* the load of the same loader with the same state, category and maximum and
\* no diet type.
C22_UnrecognisedIgnored ==
  \A i \in DOMAIN loads : \A j \in DOMAIN loads :
     ( /\ loads[i].loader = loads[j].loader
       /\ OptTruthy(loads[i].query.diet_type)
       /\ Lower(loads[i].query.diet_type[1]) \notin ALLOWED_DIET_TYPES
       /\ loads[j].query.diet_type = None
       /\ loads[i].query.state = loads[j].query.state
       /\ loads[i].query.meal_type = loads[j].query.meal_type
       /\ loads[i].query.max_meals = loads[j].query.max_meals )
     => loads[i].meals = loads[j].meals

\* C23: every key of the generator's cache is the query key of a load made so
\* far that returned meals of the source, the list under it is never the
\* fallback corpus, and a load that returned the fallback corpus has no list
\* under its key.
C23_WritesOnlyOnSuccess ==
  LET OwnKey(l) == CacheKey(l.query.state, l.query.diet_type, l.query.meal_type, l.query.max_meals)
      Generator == {i \in DOMAIN loads : loads[i].loader = "ai_meal_generator"}
  IN /\ \A k \in CacheKeys(meal_data_cache) :
          /\ \E i \in Generator : OwnKey(loads[i]) = k /\ loads[i].meals # get_fallback_meal_data
          /\ CacheGet(meal_data_cache, k) # get_fallback_meal_data
     /\ \A k \in CacheKeys(main_meal_data_cache) :
          CacheGet(main_meal_data_cache, k) # main_get_fallback_meal_data

\* C27: every load of the generator module reads its source at most twice.
C27_ReadsAtMostTwice ==
  \A i \in DOMAIN loads : loads[i].loader = "ai_meal_generator" => loads[i].reads <= 2

\* C28: filter_meals_by_preferences called with condition 'diabetes' (in any
\* letter case) returns no meal with approx_calories above 300 and no meal
\* whose Calorie Level is high or very high.
C28_MedicalNotBypassed ==
  \A i \in DOMAIN done :
     (done[i].fn = "filter_meals_by_preferences" /\ Lower(done[i].medical_condition) = <<"d","i","a","b","e","t","e","s">>)
     => \A k \in DOMAIN done[i].result :
          LET meal == done[i].result[k]
          IN /\ "approx_calories" \in DOMAIN meal => meal["approx_calories"] <= 300
             /\ "Calorie Level" \in DOMAIN meal =>
                  Lower(meal["Calorie Level"]) \notin {<<"h","i","g","h">>, <<"v","e","r","y"," ","h","i","g","h">>}

\* C29: when the loader of src/main.py has read its source a second time with
\* the alternate codec, every meal it returns has the requested diet type and
\* category, and no meal is returned twice.
C29_RetryEqualsCleanPass ==
  \A i \in DOMAIN loads :
     (loads[i].loader = "main" /\ loads[i].reads = 2 /\ loads[i].meals # main_get_fallback_meal_data)
     => LET q == loads[i].query
            meals == loads[i].meals
        IN /\ \A k \in DOMAIN meals :
                /\ (OptTruthy(q.diet_type) /\ Lower(q.diet_type[1]) \in ALLOWED_DIET_TYPES)
                     => Lower(meals[k]["SpecialNote"]) = <<"d","i","e","t",":"," ">> \o Lower(q.diet_type[1])
                /\ (OptTruthy(q.meal_type) /\ Lower(q.meal_type[1]) \in ALLOWED_MEAL_TYPES)
                     => Lower(meals[k]["Category"]) = Lower(q.meal_type[1])
           /\ \A k \in DOMAIN meals : \A l \in DOMAIN meals : meals[k] = meals[l] => k = l

\* C26: no answer is a partial match and no request ends in the PartialMatch
\* stage; when the scoring pass has kept no meal, the PartialMatch criterion
\* holds for no meal handed to it and no requested ingredient.
C26_PartialAddsNothing ==
  \A i \in DOMAIN done :
     /\ done[i].response.kind # "partial"
     /\ Stage("PartialMatch", "result") \notin Range(done[i].trace)
     /\ Stage("FullMatch", "empty") \in Range(done[i].trace) =>
          \A k \in DOMAIN done[i].survivors :
             \A ing \in Range(IngredientList(done[i].ingredients)) :
                ~PartialCriterion(done[i].survivors[k], ing)

\* a request for an ingredient no meal has went through both stages with
\* meals at hand and found nothing
C26_Witness ==
  /\ done # <<>>
  /\ done[1].trace[1] = Stage("FullMatch", "empty")
  /\ done[1].trace[2] = Stage("PartialMatch", "empty")
  /\ done[1].survivors # <<>>
  /\ IngredientList(done[1].ingredients) = <<<<"k","i","w","i">>>>

\* C24: under a recognised condition every meal returned by
\* filter_meals_by_medical_condition carries the score 5 for each prefer-term
\* in its name plus 3 for each pair of a prefer-term and an entry of its
\* ingredient list that holds the term, and the meals are returned in
\* non-increasing score, meals of equal score in the order they were given.
C24_MedicalRanking ==
  \A i \in DOMAIN done :
     (done[i].fn = "filter_meals_by_medical_condition" /\ done[i].medical_condition # <<>>
        /\ ConditionConfig(Lower(done[i].medical_condition)) # <<>>)
     => LET prefer == Get(ConditionConfig(Lower(done[i].medical_condition))[1], "prefer", <<>>)
            result == done[i].result
            Entries(d) == IF "Ingredients" \in DOMAIN d THEN FilterIngredients(d)
                          ELSE Get(d, "ingredients", <<>>)
            Given(d) == [k \in DOMAIN d \ {"medical_score"} |-> d[k]]
        IN /\ \A k \in DOMAIN result :
                Get(result[k].d, "medical_score", 0)
                  = 5 * Cardinality({p \in DOMAIN prefer : IsSub(prefer[p], FilterName(result[k].d))})
                    + 3 * Cardinality({pe \in (DOMAIN prefer) \X (DOMAIN Entries(result[k].d)) :
                                         IsSub(prefer[pe[1]], Entries(result[k].d)[pe[2]])})
           /\ \A k \in 1..(Len(result) - 1) :
                /\ result[k].d["medical_score"] >= result[k + 1].d["medical_score"]
                /\ result[k].d["medical_score"] = result[k + 1].d["medical_score"] =>
                     \E a \in DOMAIN done[i].meals : \E b \in DOMAIN done[i].meals :
                        /\ a <= b
                        /\ Given(done[i].meals[a].d) = Given(result[k].d)
                        /\ Given(done[i].meals[b].d) = Given(result[k + 1].d)

\* C25: every meal built by convert_csv_row_to_meal or returned by
\* load_meal_data_from_json carries the label low below 200 calories, medium
\* from 200 to below 500 and high from 500 on.
C25_CalorieBand ==
  LET Band(calories) == IF calories < 200 THEN <<"l","o","w">>
                        ELSE IF calories < 500 THEN <<"m","e","d","i","u","m">> ELSE <<"h","i","g","h">>
      Banded(meal) == meal["Calorie Level"] = Band(meal["approx_calories"])
  IN \A i \in DOMAIN done :
        /\ (done[i].fn = "convert_csv_row_to_meal" /\ done[i].result # None) => Banded(done[i].result[1])
        /\ done[i].fn = "load_meal_data_from_json" =>
             \A k \in DOMAIN done[i].result : Banded(done[i].result[k])

\* C30: among the calls of check_rate_limit of one user, no more than
\* MAX_REQUESTS_PER_WINDOW calls answered True lie within RATE_LIMIT_WINDOW
\* seconds of one another.
C30_RateLimit ==
  \A i \in DOMAIN loads :
     Cardinality({j \in DOMAIN loads :
                    /\ j >= i
                    /\ loads[j].user_id = loads[i].user_id
                    /\ loads[j].result
                    /\ loads[j].now - loads[i].now < RATE_LIMIT_WINDOW}) <= MAX_REQUESTS_PER_WINDOW
=============================================================================
